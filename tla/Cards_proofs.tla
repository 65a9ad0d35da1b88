---------------------------- MODULE Cards_proofs ----------------------------
(***************************************************************************)
(* Theorems about what MCCardDesk puts together: the issuing of cards,     *)
(* their blocking, the cardholder at the provider and the account.  The    *)
(* parts share no variable; each theorem is about the specification of one *)
(* of them, for any constants that satisfy its assumption.                 *)
(***************************************************************************)
EXTENDS CardIssuing, CardControl, Cardholders, Accounts, Sums

(***************************************************************************)
(* Issuing, for any orders, executions, prices and number of faults.       *)
(***************************************************************************)

(***************************************************************************)
(* An execution that is under way is of an order.                          *)
(***************************************************************************)
LEMMA BusyExec ==
  ASSUME TypeOK, NEW e \in Exec, exec[e].pc # "free"
  PROVE  /\ exec[e].order \in Order
         /\ exec[e] \in [pc : {"created", "loaded"}, order : Order]
         /\ exec[e] = [pc |-> exec[e].pc, order |-> exec[e].order]
BY DEF TypeOK, Free

(***************************************************************************)
(* Every step of createCard and of its handler keeps the types.            *)
(***************************************************************************)
LEMMA TypeStep == TypeOK /\ [Next]_vars => TypeOK'
<1> SUFFICES ASSUME TypeOK, [Next]_vars PROVE TypeOK'
  OBVIOUS
<1> USE CardAssumption
<1>1. ASSUME NEW o \in Order, NEW w \in Wallet, NEW a \in Amount,
             OrderCheck(o, w, a)
      PROVE  TypeOK'
  BY <1>1 DEF OrderCheck, TypeOK
<1>2. ASSUME NEW o \in Order, OrderCommit(o) \/ OrderAbort(o)
      PROVE  TypeOK'
  <2>1. order[o].wallet \in Wallet /\ order[o].amount \in Amount
    BY <1>2 DEF OrderCommit, OrderAbort, TypeOK, Idle
  <2>2. \A pc \in {"ordered", "refused"} :
          [order[o] EXCEPT !.pc = pc] =
            [pc |-> pc, wallet |-> order[o].wallet, amount |-> order[o].amount]
    BY <1>2 DEF OrderCommit, OrderAbort, TypeOK, Idle
  <2>3. QED BY <1>2, <2>1, <2>2 DEF OrderCommit, OrderAbort, TypeOK
<1>3. ASSUME NEW o \in Order, NEW e \in Exec, CreateCard(e, o)
      PROVE  TypeOK'
  BY <1>3 DEF CreateCard, Deliverable, Fault, TypeOK
<1>4. ASSUME NEW o \in Order, NEW e \in Exec, CreateCardFails(e, o)
      PROVE  TypeOK'
  BY <1>4 DEF CreateCardFails, Consumed, Fault, TypeOK
<1>5. ASSUME NEW e \in Exec, LoadCard(e) PROVE TypeOK'
  <2>1. [exec[e] EXCEPT !.pc = "loaded"] \in
          [pc : {"created", "loaded"}, order : Order]
    BY <1>5, BusyExec DEF LoadCard
  <2>2. exec[e].order \in Order
    BY <1>5, BusyExec DEF LoadCard
  <2>3. QED BY <1>5, <2>1, <2>2 DEF LoadCard, TypeOK
<1>6. ASSUME NEW e \in Exec, LoadCardFails(e) \/ CommitDebit(e) \/ DebitFails(e)
      PROVE  TypeOK'
  <2>1. exec[e].order \in Order
    BY <1>6, BusyExec DEF LoadCardFails, CommitDebit, DebitFails
  <2>2. QED
    BY <1>6, <2>1
    DEF LoadCardFails, CommitDebit, DebitFails, Consumed, Fault, TypeOK
<1>7. CASE ConsumerCrash
  <2>1. IsFiniteSet({e \in Exec : exec[e].pc # "free"})
    BY FS_Subset
  <2>2. Cardinality({e \in Exec : exec[e].pc # "free"}) \in Nat
    BY <2>1, FS_CardinalityType
  <2>3. QED BY <1>7, <2>2 DEF ConsumerCrash, Fault, TypeOK
<1>8. ASSUME NEW o \in Order, Redeliver(o) PROVE TypeOK'
  BY <1>8 DEF Redeliver, Fault, TypeOK
<1>9. CASE UNCHANGED vars
  BY <1>9 DEF vars, TypeOK
<1>10. QED
  BY <1>1, <1>2, <1>3, <1>4, <1>5, <1>6, <1>7, <1>8, <1>9
  DEF Next, Start, HandlerStep

(***************************************************************************)
(* The variables of card issuing keep their types.                         *)
(***************************************************************************)
THEOREM TypeCorrect == Spec => []TypeOK
<1>1. Init => TypeOK
  BY CardAssumption DEF Init, TypeOK
<1>2. QED BY <1>1, TypeStep, PTL DEF Spec

-----------------------------------------------------------------------------
(***************************************************************************)
(* How many executions stand at a point of an order, before and after one  *)
(* of them moves.                                                          *)
(***************************************************************************)
LEMMA CountAt ==
  ASSUME NEW pc, NEW o
  PROVE  IsFiniteSet(At(pc, o)) /\ Cardinality(At(pc, o)) \in Nat
<1>1. IsFiniteSet(At(pc, o))
  BY CardAssumption, FS_Subset DEF At
<1>2. QED BY <1>1, FS_CardinalityType

LEMMA Joins ==
  ASSUME NEW pc, NEW o, NEW e, e \notin At(pc, o), At(pc, o)' = At(pc, o) \cup {e}
  PROVE  Cardinality(At(pc, o)') = Cardinality(At(pc, o)) + 1
BY CountAt, FS_AddElement

LEMMA Leaves ==
  ASSUME NEW pc, NEW o, NEW e, e \in At(pc, o), At(pc, o)' = At(pc, o) \ {e}
  PROVE  Cardinality(At(pc, o)') = Cardinality(At(pc, o)) - 1
BY CountAt, FS_RemoveElement

-----------------------------------------------------------------------------
(***************************************************************************)
(* The books of each order balance after every step: an execution that     *)
(* moves on takes its load or its debit with it.                           *)
(***************************************************************************)
Books == DebitsAreLoaded /\ LoadsAreIssued

LEMMA BooksKept ==
  ASSUME TypeOK, Books, UNCHANGED <<exec, debits, issued, loads>>
  PROVE  Books'
BY DEF Books, DebitsAreLoaded, LoadsAreIssued, At

LEMMA BooksStep == TypeOK /\ Books /\ [Next]_vars => Books'
<1> SUFFICES ASSUME TypeOK, Books, [Next]_vars PROVE Books'
  OBVIOUS
<1>0. \A p \in Order : /\ Cardinality(At("created", p)) \in Nat
                       /\ Cardinality(At("loaded", p)) \in Nat
                       /\ debits[p] \in Nat /\ loads[p] \in Nat /\ issued[p] \in Nat
                       /\ debits[p] + Cardinality(At("loaded", p)) <= loads[p]
                       /\ loads[p] + Cardinality(At("created", p)) <= issued[p]
  BY CountAt DEF TypeOK, Books, DebitsAreLoaded, LoadsAreIssued
<1>1. ASSUME NEW o \in Order, NEW w \in Wallet, NEW a \in Amount,
             OrderCheck(o, w, a)
      PROVE  Books'
  BY <1>1, BooksKept DEF OrderCheck
<1>2. ASSUME NEW o \in Order, OrderCommit(o) \/ OrderAbort(o) \/ Redeliver(o)
      PROVE  Books'
  BY <1>2, BooksKept DEF OrderCommit, OrderAbort, Redeliver
<1>3. ASSUME NEW o \in Order, NEW e \in Exec, CreateCard(e, o)
      PROVE  Books'
  <2>1. \A d \in Exec :
          exec'[d] = IF d = e THEN [pc |-> "created", order |-> o] ELSE exec[d]
    BY <1>3 DEF CreateCard, TypeOK
  <2>2. exec[e].pc = "free"
    BY <1>3 DEF CreateCard
  <2>3. At("created", o)' = At("created", o) \cup {e} /\ e \notin At("created", o)
    BY <2>1, <2>2 DEF At
  <2>4. Cardinality(At("created", o)') = Cardinality(At("created", o)) + 1
    BY <2>3, Joins
  <2>5. \A p \in Order : p # o => At("created", p)' = At("created", p)
    BY <2>1, <2>2 DEF At
  <2>6. \A p \in Order : At("loaded", p)' = At("loaded", p)
    BY <2>1, <2>2 DEF At
  <2>7. issued' = [issued EXCEPT ![o] = @ + 1] /\ UNCHANGED <<debits, loads>>
    BY <1>3 DEF CreateCard
  <2>8. DebitsAreLoaded'
    BY <1>0, <2>6, <2>7 DEF DebitsAreLoaded
  <2>9. LoadsAreIssued'
    BY <1>0, <2>4, <2>5, <2>7 DEF LoadsAreIssued, TypeOK
  <2>10. QED BY <2>8, <2>9 DEF Books
<1>4. ASSUME NEW o \in Order, NEW e \in Exec, CreateCardFails(e, o)
      PROVE  Books'
  <2>1. \A p \in Order : issued'[p] \in Nat /\ issued[p] <= issued'[p]
    BY <1>4 DEF CreateCardFails, TypeOK
  <2>2. UNCHANGED <<exec, debits, loads>>
    BY <1>4 DEF CreateCardFails
  <2>3. DebitsAreLoaded'
    BY <1>0, <2>2 DEF DebitsAreLoaded, At
  <2>4. \A p \in Order : At("created", p)' = At("created", p)
    BY <2>2 DEF At
  <2>5. LoadsAreIssued'
    BY <1>0, <2>1, <2>2, <2>4 DEF LoadsAreIssued
  <2>6. QED BY <2>3, <2>5 DEF Books
<1>5. ASSUME NEW e \in Exec, LoadCard(e) PROVE Books'
  <2>1. PICK o \in Order : exec[e] = [pc |-> "created", order |-> o]
    BY <1>5, BusyExec DEF LoadCard
  <2>2. \A d \in Exec :
          exec'[d] = IF d = e THEN [pc |-> "loaded", order |-> o] ELSE exec[d]
    BY <1>5, <2>1 DEF LoadCard, TypeOK
  <2>3. /\ At("created", o)' = At("created", o) \ {e} /\ e \in At("created", o)
        /\ At("loaded", o)' = At("loaded", o) \cup {e} /\ e \notin At("loaded", o)
    BY <2>1, <2>2 DEF At
  <2>4. /\ Cardinality(At("created", o)') = Cardinality(At("created", o)) - 1
        /\ Cardinality(At("loaded", o)') = Cardinality(At("loaded", o)) + 1
    BY <2>3, Joins, Leaves
  <2>5. \A p \in Order : p # o => /\ At("created", p)' = At("created", p)
                                  /\ At("loaded", p)' = At("loaded", p)
    BY <2>1, <2>2 DEF At
  <2>6. loads' = [loads EXCEPT ![o] = @ + 1] /\ UNCHANGED <<debits, issued>>
    BY <1>5, <2>1 DEF LoadCard
  <2>7. DebitsAreLoaded'
    BY <1>0, <2>4, <2>5, <2>6 DEF DebitsAreLoaded, TypeOK
  <2>8. LoadsAreIssued'
    BY <1>0, <2>4, <2>5, <2>6 DEF LoadsAreIssued, TypeOK
  <2>9. QED BY <2>7, <2>8 DEF Books
<1>6. ASSUME NEW e \in Exec, LoadCardFails(e) PROVE Books'
  <2>1. PICK o \in Order : exec[e] = [pc |-> "created", order |-> o]
    BY <1>6, BusyExec DEF LoadCardFails
  <2>2. \A d \in Exec : exec'[d] = IF d = e THEN Free ELSE exec[d]
    BY <1>6 DEF LoadCardFails, TypeOK
  <2>3. At("created", o)' = At("created", o) \ {e} /\ e \in At("created", o)
    BY <2>1, <2>2 DEF At, Free
  <2>4. Cardinality(At("created", o)') = Cardinality(At("created", o)) - 1
    BY <2>3, Leaves
  <2>5. \A p \in Order : /\ p # o => At("created", p)' = At("created", p)
                         /\ At("loaded", p)' = At("loaded", p)
    BY <2>1, <2>2 DEF At, Free
  <2>6. \/ UNCHANGED loads
        \/ loads' = [loads EXCEPT ![o] = @ + 1]
    BY <1>6, <2>1 DEF LoadCardFails
  <2>7. UNCHANGED <<debits, issued>>
    BY <1>6 DEF LoadCardFails
  <2>8. DebitsAreLoaded'
    BY <1>0, <2>5, <2>6, <2>7 DEF DebitsAreLoaded, TypeOK
  <2>9. LoadsAreIssued'
    BY <1>0, <2>4, <2>5, <2>6, <2>7 DEF LoadsAreIssued, TypeOK
  <2>10. QED BY <2>8, <2>9 DEF Books
<1>7. ASSUME NEW e \in Exec, CommitDebit(e) PROVE Books'
  <2>1. PICK o \in Order : exec[e] = [pc |-> "loaded", order |-> o]
    BY <1>7, BusyExec DEF CommitDebit
  <2>2. \A d \in Exec : exec'[d] = IF d = e THEN Free ELSE exec[d]
    BY <1>7 DEF CommitDebit, TypeOK
  <2>3. At("loaded", o)' = At("loaded", o) \ {e} /\ e \in At("loaded", o)
    BY <2>1, <2>2 DEF At, Free
  <2>4. Cardinality(At("loaded", o)') = Cardinality(At("loaded", o)) - 1
    BY <2>3, Leaves
  <2>5. \A p \in Order : /\ p # o => At("loaded", p)' = At("loaded", p)
                         /\ At("created", p)' = At("created", p)
    BY <2>1, <2>2 DEF At, Free
  <2>6. debits' = [debits EXCEPT ![o] = @ + 1] /\ UNCHANGED <<loads, issued>>
    BY <1>7, <2>1 DEF CommitDebit
  <2>7. DebitsAreLoaded'
    BY <1>0, <2>4, <2>5, <2>6 DEF DebitsAreLoaded, TypeOK
  <2>8. LoadsAreIssued'
    BY <1>0, <2>5, <2>6 DEF LoadsAreIssued
  <2>9. QED BY <2>7, <2>8 DEF Books
<1>8. ASSUME NEW e \in Exec, DebitFails(e) PROVE Books'
  <2>1. PICK o \in Order : exec[e] = [pc |-> "loaded", order |-> o]
    BY <1>8, BusyExec DEF DebitFails
  <2>2. \A d \in Exec : exec'[d] = IF d = e THEN Free ELSE exec[d]
    BY <1>8 DEF DebitFails, TypeOK
  <2>3. At("loaded", o)' = At("loaded", o) \ {e} /\ e \in At("loaded", o)
    BY <2>1, <2>2 DEF At, Free
  <2>4. Cardinality(At("loaded", o)') = Cardinality(At("loaded", o)) - 1
    BY <2>3, Leaves
  <2>5. \A p \in Order : /\ p # o => At("loaded", p)' = At("loaded", p)
                         /\ At("created", p)' = At("created", p)
    BY <2>1, <2>2 DEF At, Free
  <2>6. UNCHANGED <<debits, loads, issued>>
    BY <1>8 DEF DebitFails
  <2>7. DebitsAreLoaded'
    BY <1>0, <2>4, <2>5, <2>6 DEF DebitsAreLoaded
  <2>8. LoadsAreIssued'
    BY <1>0, <2>5, <2>6 DEF LoadsAreIssued
  <2>9. QED BY <2>7, <2>8 DEF Books
<1>9. CASE ConsumerCrash
  <2>1. exec' = [e \in Exec |-> Free] /\ UNCHANGED <<debits, loads, issued>>
    BY <1>9 DEF ConsumerCrash
  <2>2. \A p \in Order : At("created", p)' = {} /\ At("loaded", p)' = {}
    BY <2>1 DEF At, Free
  <2>3. \A p \in Order : /\ Cardinality(At("created", p))' = 0
                         /\ Cardinality(At("loaded", p))' = 0
    BY <2>2, FS_EmptySet
  <2>4. QED
    BY <1>0, <2>1, <2>3 DEF Books, DebitsAreLoaded, LoadsAreIssued
<1>10. CASE UNCHANGED vars
  BY <1>10, BooksKept DEF vars
<1>11. QED
  BY <1>1, <1>2, <1>3, <1>4, <1>5, <1>6, <1>7, <1>8, <1>9, <1>10
  DEF Next, Start, HandlerStep

(***************************************************************************)
(* What an order that did not commit, or whose message was consumed        *)
(* without an error, shows.                                                *)
(***************************************************************************)
Progress == DoneIsDebited /\ OnlyOrdered

LEMMA ProgressStep == TypeOK /\ Progress /\ [Next]_vars => Progress'
<1> SUFFICES ASSUME TypeOK, Progress, [Next]_vars PROVE Progress'
  OBVIOUS
<1> USE DEF Progress, DoneIsDebited, OnlyOrdered, Active
<1>0. \A e \in Exec : exec[e].order \in Order =>
        order[exec[e].order].pc = "ordered"
  OBVIOUS
<1>1. ASSUME NEW o \in Order, NEW w \in Wallet, NEW a \in Amount,
             OrderCheck(o, w, a)
      PROVE  Progress'
  BY <1>1 DEF OrderCheck, TypeOK
<1>2. ASSUME NEW o \in Order, OrderCommit(o) \/ OrderAbort(o)
      PROVE  Progress'
  BY <1>2 DEF OrderCommit, OrderAbort, TypeOK, Idle
<1>3. ASSUME NEW o \in Order, Redeliver(o) PROVE Progress'
  BY <1>3 DEF Redeliver, TypeOK
<1>4. ASSUME NEW o \in Order, NEW e \in Exec, CreateCard(e, o)
      PROVE  Progress'
  <2>1. message[o] = "pending" /\ order[o].pc = "ordered"
    BY <1>4 DEF CreateCard, Deliverable
  <2>2. QED BY <1>4, <2>1 DEF CreateCard, TypeOK
<1>5. ASSUME NEW o \in Order, NEW e \in Exec, CreateCardFails(e, o)
      PROVE  Progress'
  BY <1>5 DEF CreateCardFails, Deliverable, Consumed, TypeOK
<1>6. ASSUME NEW e \in Exec, LoadCard(e) PROVE Progress'
  <2>1. exec'[e].order = exec[e].order
    BY <1>6, BusyExec DEF LoadCard, TypeOK
  <2>2. \A d \in Exec : exec'[d].order = exec[d].order
    BY <1>6, <2>1 DEF LoadCard, TypeOK
  <2>3. QED BY <1>6, <2>2 DEF LoadCard
<1>7. ASSUME NEW e \in Exec, LoadCardFails(e) \/ CommitDebit(e) \/ DebitFails(e)
      PROVE  Progress'
  <2>1. exec[e].order \in Order /\ order[exec[e].order].pc = "ordered"
    BY <1>0, <1>7, BusyExec DEF LoadCardFails, CommitDebit, DebitFails
  <2>2. \A d \in Exec : exec'[d] = IF d = e THEN Free ELSE exec[d]
    BY <1>7 DEF LoadCardFails, CommitDebit, DebitFails, TypeOK
  <2>3. \A p \in Order : {d \in Exec : exec'[d].order = p} \subseteq
                           {d \in Exec : exec[d].order = p}
    BY <2>2, CardAssumption DEF Free
  <2>4. QED
    BY <1>7, <2>1, <2>3
    DEF LoadCardFails, CommitDebit, DebitFails, Consumed, TypeOK
<1>8. CASE ConsumerCrash
  BY <1>8, CardAssumption DEF ConsumerCrash, Free
<1>9. CASE UNCHANGED vars
  BY <1>9 DEF vars
<1>10. QED
  BY <1>1, <1>2, <1>3, <1>4, <1>5, <1>6, <1>7, <1>8, <1>9
  DEF Next, Start, HandlerStep

(***************************************************************************)
(* The books of every order balance, under every hazard: no wallet is      *)
(* debited for a card that was not made and loaded for it.                 *)
(***************************************************************************)
THEOREM CardsInvariant == Spec => []CardsInv
<1>1. CardsInv <=> Books /\ Progress
  BY DEF CardsInv, Books, Progress
<1>2. Init => Books /\ Progress
  <2> SUFFICES ASSUME Init PROVE Books /\ Progress
    OBVIOUS
  <2>1. \A o \in Order : At("created", o) = {} /\ At("loaded", o) = {}
    BY DEF Init, At, Free
  <2>2. Books
    BY <2>1, FS_EmptySet DEF Init, Books, DebitsAreLoaded, LoadsAreIssued
  <2>3. Progress
    BY CardAssumption
    DEF Init, Free, Idle, Progress, DoneIsDebited, OnlyOrdered, Active
  <2>4. QED BY <2>2, <2>3
<1>3. TypeOK /\ Books /\ Progress /\ [Next]_vars => Books' /\ Progress'
  BY BooksStep, ProgressStep
<1>4. QED BY <1>1, <1>2, <1>3, TypeCorrect, PTL DEF Spec

(***************************************************************************)
(* The books balance, of orders, executions and debits as typed.           *)
(***************************************************************************)
THEOREM CardsAreSafe == Spec => []CardsSafe
BY TypeCorrect, CardsInvariant, PTL DEF CardsSafe

-----------------------------------------------------------------------------
(***************************************************************************)
(* What faults cost: the damage done together with the damage what is under*)
(* way may still do is counted per order and summed over the orders.       *)
(***************************************************************************)

(***************************************************************************)
(* How often an order is debited or may still be: its debits, the          *)
(* executions under way for it, and one to come.                           *)
(***************************************************************************)
NotYet(o) == IF order[o].pc = "checked" \/ Deliverable(o) THEN 1 ELSE 0

Due(o) == debits[o] + Cardinality(At("created", o))
            + Cardinality(At("loaded", o)) + NotYet(o)

Twice(n) == IF n > 1 THEN n - 1 ELSE 0

\* The loads of an order nobody is or will be debited for, and the debits
\* after its first.
Lost(o) == loads[o] - debits[o] - Cardinality(At("loaded", o)) + Twice(Due(o))

\* A step that a fault hits k times, all of it at the order o.
Bounded(p, k) == Due(p)' <= Due(p) + k /\ Lost(p)' <= Lost(p) + k

Costs(o, k) ==
  /\ faults' = faults + k
  /\ \A p \in Order : Bounded(p, IF p = o THEN k ELSE 0)
  /\ \A p \in Order : /\ order'[p].wallet = order[p].wallet
                      /\ order'[p].amount = order[p].amount

LEMMA CountIn ==
  ASSUME NEW S, S \subseteq Exec
  PROVE  IsFiniteSet(S) /\ Cardinality(S) \in Nat /\ (S # {} => Cardinality(S) > 0)
<1>1. IsFiniteSet(S)
  BY CardAssumption, FS_Subset
<1>2. QED BY <1>1, FS_CardinalityType, FS_EmptySet

LEMMA DueTypes ==
  TypeOK => \A p \in Order :
    /\ Cardinality(At("created", p)) \in Nat
    /\ Cardinality(At("loaded", p)) \in Nat
    /\ debits[p] \in Nat /\ loads[p] \in Nat
    /\ NotYet(p) \in 0 .. 1
    /\ Due(p) \in Nat /\ Lost(p) \in Int
<1> SUFFICES ASSUME TypeOK, NEW p \in Order
             PROVE  /\ Cardinality(At("created", p)) \in Nat
                    /\ Cardinality(At("loaded", p)) \in Nat
                    /\ debits[p] \in Nat /\ loads[p] \in Nat
                    /\ NotYet(p) \in 0 .. 1
                    /\ Due(p) \in Nat /\ Lost(p) \in Int
  OBVIOUS
<1>1. /\ Cardinality(At("created", p)) \in Nat
      /\ Cardinality(At("loaded", p)) \in Nat
  BY CountIn DEF At
<1>2. debits[p] \in Nat /\ loads[p] \in Nat
  BY DEF TypeOK
<1>3. NotYet(p) \in 0 .. 1
  BY DEF NotYet
<1>4. Due(p) \in Nat
  BY <1>1, <1>2, <1>3 DEF Due
<1>5. Lost(p) \in Int
  BY <1>1, <1>2, <1>4 DEF Lost, Twice
<1>6. QED BY <1>1, <1>2, <1>3, <1>4, <1>5

LEMMA DueTypesNext ==
  TypeOK' => \A p \in Order :
    /\ Cardinality(At("created", p))' \in Nat
    /\ Cardinality(At("loaded", p))' \in Nat
    /\ debits'[p] \in Nat /\ loads'[p] \in Nat
    /\ NotYet(p)' \in 0 .. 1
    /\ Due(p)' \in Nat /\ Lost(p)' \in Int
<1> SUFFICES ASSUME TypeOK', NEW p \in Order
             PROVE  /\ Cardinality(At("created", p))' \in Nat
                    /\ Cardinality(At("loaded", p))' \in Nat
                    /\ debits'[p] \in Nat /\ loads'[p] \in Nat
                    /\ NotYet(p)' \in 0 .. 1
                    /\ Due(p)' \in Nat /\ Lost(p)' \in Int
  OBVIOUS
<1>1. /\ Cardinality(At("created", p))' \in Nat
      /\ Cardinality(At("loaded", p))' \in Nat
  BY CountIn DEF At
<1>2. debits'[p] \in Nat /\ loads'[p] \in Nat
  BY DEF TypeOK
<1>3. NotYet(p)' \in 0 .. 1
  BY DEF NotYet
<1>4. Due(p)' \in Nat
  BY <1>1, <1>2, <1>3 DEF Due
<1>5. Lost(p)' \in Int
  BY <1>1, <1>2, <1>4 DEF Lost, Twice
<1>6. QED BY <1>1, <1>2, <1>3, <1>4, <1>5

(***************************************************************************)
(* A step that keeps every order's loads paid for, and one that ends an    *)
(* execution without a debit.                                              *)
(***************************************************************************)
LEMMA StaysPut ==
  ASSUME TypeOK, TypeOK', NEW p \in Order,
         NotYet(p)' <= NotYet(p), UNCHANGED <<debits[p], loads[p]>>,
         At("created", p)' = At("created", p), At("loaded", p)' = At("loaded", p)
  PROVE  Bounded(p, 0)
BY DueTypes, DueTypesNext DEF Bounded, Due, Lost, Twice

LEMMA CostStep ==
  ASSUME TypeOK, TypeOK', Progress,
         NEW o \in Order,
         \/ OrderCommit(o) \/ OrderAbort(o) \/ Redeliver(o)
         \/ \E e \in Exec : CreateCard(e, o) \/ CreateCardFails(e, o)
  PROVE  \E k \in 0 .. 1 : Costs(o, k)
<1> DEFINE
  Numbers(p) == /\ Cardinality(At("created", p)) \in Nat
                /\ Cardinality(At("loaded", p)) \in Nat
                /\ debits[p] \in Nat /\ loads[p] \in Nat
                /\ NotYet(p) \in 0 .. 1 /\ NotYet(p)' \in 0 .. 1
                /\ Due(p) \in Nat /\ Due(p)' \in Nat
<1>0. \A p \in Order : Numbers(p)
  BY DueTypes, DueTypesNext
<1>1. CASE OrderCommit(o) \/ OrderAbort(o)
  <2>1. \A p \in Order : NotYet(p)' <= NotYet(p)
    BY <1>1 DEF OrderCommit, OrderAbort, NotYet, Deliverable, Active, TypeOK
  <2>2. UNCHANGED <<exec, debits, loads, faults>>
    BY <1>1 DEF OrderCommit, OrderAbort
  <2>3. \A p \in Order : Bounded(p, 0)
    BY <2>1, <2>2, StaysPut DEF At
  <2>4. \A p \in Order : /\ order'[p].wallet = order[p].wallet
                         /\ order'[p].amount = order[p].amount
    BY <1>1 DEF OrderCommit, OrderAbort, TypeOK
  <2>5. faults' = faults + 0
    BY <2>2 DEF TypeOK
  <2>6. Costs(o, 0)
    BY <2>3, <2>4, <2>5 DEF Costs
  <2>7. QED BY <2>6
<1>2. CASE Redeliver(o)
  <2>1. \A p \in Order : p # o => NotYet(p)' <= NotYet(p)
    BY <1>2 DEF Redeliver, NotYet, Deliverable, Active, TypeOK
  <2>2. UNCHANGED <<order, exec, debits, loads>> /\ faults' = faults + 1
    BY <1>2 DEF Redeliver, Fault
  <2>3. \A p \in Order : p # o => Bounded(p, 0)
    BY <2>1, <2>2, StaysPut DEF At
  <2>4. Bounded(o, 1)
    BY <1>0, <2>2 DEF Bounded, Due, Lost, Twice, At
  <2>5. Costs(o, 1)
    BY <2>2, <2>3, <2>4 DEF Costs
  <2>6. QED BY <2>5
<1>3. ASSUME NEW e \in Exec, CreateCard(e, o)
      PROVE  \E k \in 0 .. 1 : Costs(o, k)
  <2>1. \A d \in Exec :
          exec'[d] = IF d = e THEN [pc |-> "created", order |-> o] ELSE exec[d]
    BY <1>3 DEF CreateCard, TypeOK
  <2>2. exec[e] = Free
    BY <1>3 DEF CreateCard, TypeOK
  <2>3. At("created", o)' = At("created", o) \cup {e} /\ e \notin At("created", o)
    BY <2>1, <2>2 DEF At, Free
  <2>4. Cardinality(At("created", o)') = Cardinality(At("created", o)) + 1
    BY <2>3, Joins
  <2>5. \A p \in Order : /\ p # o => At("created", p)' = At("created", p)
                         /\ At("loaded", p)' = At("loaded", p)
    BY <2>1, <2>2 DEF At, Free
  <2>6. UNCHANGED <<order, message, debits, loads>>
    BY <1>3 DEF CreateCard
  <2>7. \A p \in Order : p # o => Active(p)' = Active(p)
    BY <2>1, <2>2, CardAssumption DEF Active, Free
  <2>8. \A p \in Order : p # o => NotYet(p)' = NotYet(p)
    BY <2>6, <2>7 DEF NotYet, Deliverable
  <2>9. \A p \in Order : p # o => Bounded(p, 0)
    BY <2>5, <2>6, <2>8, <1>0, StaysPut
  <2>10. order[o].pc = "ordered"
    BY <1>3 DEF CreateCard, Deliverable, Progress, OnlyOrdered
  <2>11. e \in Active(o)'
    BY <2>1 DEF Active
  <2>12. NotYet(o)' = 0
    BY <2>6, <2>10, <2>11 DEF NotYet, Deliverable
  <2>13. CASE Deliverable(o) /\ UNCHANGED faults
    <3>1. NotYet(o) = 1
      BY <2>13 DEF NotYet
    <3>2. Due(o)' = Due(o)
      BY <1>0, <2>4, <2>5, <2>6, <2>12, <3>1 DEF Due
    <3>3. Bounded(o, 0)
      BY <1>0, <2>5, <2>6, <3>2 DEF Bounded, Lost, Twice
    <3>4. Costs(o, 0)
      BY <2>6, <2>9, <2>13, <3>3 DEF Costs, TypeOK
    <3>5. QED BY <3>4
  <2>14. CASE Fault("redelivery", 1)
    <3>1. Due(o)' <= Due(o) + 1
      BY <1>0, <2>4, <2>5, <2>6, <2>12 DEF Due
    <3>2. Bounded(o, 1)
      BY <1>0, <2>5, <2>6, <3>1 DEF Bounded, Lost, Twice
    <3>3. Costs(o, 1)
      BY <2>6, <2>9, <2>14, <3>2 DEF Costs, Fault
    <3>4. QED BY <3>3
  <2>15. QED BY <1>3, <2>13, <2>14 DEF CreateCard
<1>4. ASSUME NEW e \in Exec, CreateCardFails(e, o)
      PROVE  \E k \in 0 .. 1 : Costs(o, k)
  <2>1. UNCHANGED <<order, exec, debits, loads>>
    BY <1>4 DEF CreateCardFails
  <2>2. \A p \in Order : NotYet(p)' <= NotYet(p)
    BY <1>4, <2>1 DEF CreateCardFails, NotYet, Deliverable, Active, Consumed, TypeOK
  <2>3. \A p \in Order : Bounded(p, 0)
    BY <2>1, <2>2, StaysPut DEF At
  <2>4. PICK k \in 0 .. 1 : faults' = faults + k
    BY <1>4 DEF CreateCardFails, Fault, TypeOK
  <2>5. \A p \in Order : Bounded(p, IF p = o THEN k ELSE 0)
    BY <1>0, <2>3, <2>4, DueTypes, DueTypesNext DEF Bounded
  <2>6. Costs(o, k)
    BY <2>1, <2>4, <2>5 DEF Costs
  <2>7. QED BY <2>6
<1>5. QED BY <1>1, <1>2, <1>3, <1>4

(***************************************************************************)
(* A step of the handler costs what the fault that hits it counts.         *)
(***************************************************************************)
LEMMA HandlerCosts ==
  ASSUME TypeOK, TypeOK', Progress, NEW e \in Exec, HandlerStep(e)
  PROVE  \E o \in Order, k \in 0 .. 1 : Costs(o, k)
<1> DEFINE
  Numbers(p) == /\ Cardinality(At("created", p)) \in Nat
                /\ Cardinality(At("loaded", p)) \in Nat
                /\ debits[p] \in Nat /\ loads[p] \in Nat
                /\ NotYet(p) \in 0 .. 1 /\ NotYet(p)' \in 0 .. 1
                /\ Due(p) \in Nat /\ Due(p)' \in Nat
<1>0. \A p \in Order : Numbers(p)
  BY DueTypes, DueTypesNext
<1>1. exec[e].pc # "free"
  BY DEF HandlerStep, LoadCard, LoadCardFails, CommitDebit, DebitFails
<1>2. PICK o \in Order : exec[e] = [pc |-> exec[e].pc, order |-> o]
  BY <1>1, BusyExec
<1>3. exec[e].order = o
  BY <1>2
<1>4. order[o].pc = "ordered" /\ Active(o) # {}
  BY <1>3 DEF Progress, OnlyOrdered, Active
<1>5. UNCHANGED order
  BY DEF HandlerStep, LoadCard, LoadCardFails, CommitDebit, DebitFails
<1>6. CASE LoadCard(e)
  <2>1. exec[e] = [pc |-> "created", order |-> o]
    BY <1>2, <1>6 DEF LoadCard
  <2>2. \A d \in Exec :
          exec'[d] = IF d = e THEN [pc |-> "loaded", order |-> o] ELSE exec[d]
    BY <1>6, <2>1 DEF LoadCard, TypeOK
  <2>3. /\ At("created", o)' = At("created", o) \ {e} /\ e \in At("created", o)
        /\ At("loaded", o)' = At("loaded", o) \cup {e} /\ e \notin At("loaded", o)
    BY <2>1, <2>2 DEF At
  <2>4. /\ Cardinality(At("created", o)') = Cardinality(At("created", o)) - 1
        /\ Cardinality(At("loaded", o)') = Cardinality(At("loaded", o)) + 1
    BY <2>3, Joins, Leaves
  <2>5. \A p \in Order : p # o => /\ At("created", p)' = At("created", p)
                                  /\ At("loaded", p)' = At("loaded", p)
    BY <2>1, <2>2 DEF At
  <2>6. /\ \A p \in Order : loads'[p] = IF p = o THEN loads[p] + 1 ELSE loads[p]
        /\ UNCHANGED <<message, debits, faults>>
    BY <1>3, <1>6 DEF LoadCard, TypeOK
  <2>7. \A p \in Order : Active(p)' = Active(p)
    BY <2>1, <2>2 DEF Active
  <2>8. \A p \in Order : NotYet(p)' = NotYet(p)
    BY <1>5, <2>6, <2>7 DEF NotYet, Deliverable
  <2>9. \A p \in Order : p # o => Bounded(p, 0)
    BY <1>0, <2>5, <2>6, <2>8, StaysPut
  <2>10. Due(o)' = Due(o)
    BY <1>0, <2>4, <2>6, <2>8 DEF Due
  <2>11. Bounded(o, 0)
    BY <1>0, <2>4, <2>6, <2>10 DEF Bounded, Lost, Twice
  <2>12. Costs(o, 0)
    BY <1>5, <2>6, <2>9, <2>11 DEF Costs, TypeOK
  <2>13. QED BY <2>12
<1>7. CASE LoadCardFails(e) \/ CommitDebit(e) \/ DebitFails(e)
  <2>1. \A d \in Exec : exec'[d] = IF d = e THEN Free ELSE exec[d]
    BY <1>7 DEF LoadCardFails, CommitDebit, DebitFails, TypeOK
  <2>2. \A p \in Order :
          message'[p] = message[p] \/ (p = o /\ message'[p] # "pending")
    BY <1>3, <1>7 DEF LoadCardFails, CommitDebit, DebitFails, Consumed, TypeOK
  <2>3. \A p \in Order : p # o => /\ At("created", p)' = At("created", p)
                                  /\ At("loaded", p)' = At("loaded", p)
                                  /\ Active(p)' = Active(p)
    BY <1>2, <2>1, CardAssumption DEF At, Active, Free
  <2>4. \A p \in Order : p # o => NotYet(p)' = NotYet(p)
    BY <1>5, <2>2, <2>3 DEF NotYet, Deliverable
  <2>5. message'[o] # "pending"
    BY <1>3, <1>7 DEF LoadCardFails, CommitDebit, DebitFails, Consumed, TypeOK
  <2>6. NotYet(o)' = 0
    BY <1>4, <1>5, <2>5 DEF NotYet, Deliverable
  <2>7. \A p \in Order : p # o => UNCHANGED <<debits[p], loads[p]>>
    BY <1>3, <1>7 DEF LoadCardFails, CommitDebit, DebitFails, TypeOK
  <2>8. \A p \in Order : p # o => Bounded(p, 0)
    BY <1>0, <2>3, <2>4, <2>7, StaysPut
  <2>9. CASE LoadCardFails(e)
    <3>1. exec[e] = [pc |-> "created", order |-> o]
      BY <1>2, <2>9 DEF LoadCardFails
    <3>2. At("created", o)' = At("created", o) \ {e} /\ e \in At("created", o)
      BY <2>1, <3>1 DEF At, Free
    <3>3. Cardinality(At("created", o)') = Cardinality(At("created", o)) - 1
      BY <3>2, Leaves
    <3>4. At("loaded", o)' = At("loaded", o)
      BY <2>1, <3>1 DEF At, Free
    <3>5. PICK k \in 0 .. 1 : faults' = faults + k /\ loads'[o] = loads[o] + k
      BY <1>0, <1>3, <2>9 DEF LoadCardFails, Fault, TypeOK
    <3>6. debits'[o] = debits[o]
      BY <2>9 DEF LoadCardFails
    <3>7. Due(o)' <= Due(o)
      BY <1>0, <2>6, <3>3, <3>4, <3>6 DEF Due
    <3>8. Bounded(o, k)
      BY <1>0, <3>4, <3>5, <3>6, <3>7 DEF Bounded, Lost, Twice
    <3>9. Costs(o, k)
      BY <1>5, <2>8, <3>5, <3>8 DEF Costs
    <3>10. QED BY <3>9
  <2>10. CASE CommitDebit(e) \/ DebitFails(e)
    <3>1. exec[e] = [pc |-> "loaded", order |-> o]
      BY <1>2, <2>10 DEF CommitDebit, DebitFails
    <3>2. At("loaded", o)' = At("loaded", o) \ {e} /\ e \in At("loaded", o)
      BY <2>1, <3>1 DEF At, Free
    <3>3. Cardinality(At("loaded", o)') = Cardinality(At("loaded", o)) - 1
      BY <3>2, Leaves
    <3>4. At("created", o)' = At("created", o)
      BY <2>1, <3>1 DEF At, Free
    <3>5. PICK k \in 0 .. 1 :
            faults' = faults + k /\ debits'[o] = debits[o] + 1 - k
      BY <1>0, <1>3, <2>10 DEF CommitDebit, DebitFails, Fault, TypeOK
    <3>6. loads'[o] = loads[o]
      BY <2>10 DEF CommitDebit, DebitFails
    <3>7. Due(o)' <= Due(o)
      BY <1>0, <2>6, <3>3, <3>4, <3>5 DEF Due
    <3>8. Bounded(o, k)
      BY <1>0, <3>3, <3>5, <3>6, <3>7 DEF Bounded, Lost, Twice
    <3>9. Costs(o, k)
      BY <1>5, <2>8, <3>5, <3>8 DEF Costs
    <3>10. QED BY <3>9
  <2>11. QED BY <1>7, <2>9, <2>10
<1>8. QED BY <1>6, <1>7 DEF HandlerStep

(***************************************************************************)
(* A crash loses the loads that were not yet booked, one for each of the   *)
(* executions it hits at most.                                             *)
(***************************************************************************)
Unbooked == [o \in Order |-> Cardinality(At("loaded", o))]

LEMMA LoadedAreBusy ==
  ASSUME TypeOK
  PROVE  Total(Unbooked) <= Cardinality({e \in Exec : exec[e].pc # "free"})
<1> DEFINE L == {e \in Exec : exec[e].pc = "loaded"}
           one == [e \in L |-> 1]
           owner == [e \in L |-> exec[e].order]
<1>1. IsFiniteSet(L) /\ IsFiniteSet(Order)
  BY CountIn, CardAssumption
<1>2. \A e \in L : one[e] \in Int /\ one[e] = 1 /\ owner[e] \in Order
  <2>1. \A e \in L : e \in Exec /\ exec[e].pc # "free"
    OBVIOUS
  <2>2. \A e \in L : exec[e].order \in Order
    BY <2>1, BusyExec
  <2>3. QED BY <2>2
<1>3. ASSUME NEW o \in Order
      PROVE  Unbooked[o] = SumFunctionOnSet(one, Group(owner, L, o))
  <2>1. Group(owner, L, o) = At("loaded", o)
    BY BusyExec DEF Group, At
  <2>2. IsFiniteSet(At("loaded", o)) /\ Cardinality(At("loaded", o)) \in Nat
    BY CountIn DEF At
  <2>3. \A e \in At("loaded", o) : one[e] = 1
    BY <2>1 DEF Group
  <2>4. SumFunctionOnSet(one, At("loaded", o)) = 1 * Cardinality(At("loaded", o))
    BY <2>2, <2>3, SumConstant
  <2>5. QED BY <2>1, <2>2, <2>4 DEF Unbooked
<1>4. SumFunctionOnSet(one, L) = SumFunctionOnSet(Unbooked, Order)
  <2> HIDE DEF L, one, owner
  <2>1. QED BY <1>1, <1>2, <1>3, SumByGroup
<1>5. SumFunctionOnSet(one, L) = 1 * Cardinality(L)
  BY <1>1, <1>2, SumConstant
<1>6. Cardinality(L) <= Cardinality({e \in Exec : exec[e].pc # "free"})
  <2>1. L \subseteq {e \in Exec : exec[e].pc # "free"}
    OBVIOUS
  <2>2. IsFiniteSet({e \in Exec : exec[e].pc # "free"})
    BY CountIn
  <2>3. QED BY <2>1, <2>2, FS_Subset
<1>7. Cardinality(L) \in Nat
  BY CountIn
<1>8. QED BY <1>4, <1>5, <1>6, <1>7 DEF Total

LEMMA CrashCosts ==
  ASSUME TypeOK, TypeOK', ConsumerCrash
  PROVE  \A p \in Order :
           Due(p)' <= Due(p) /\ Lost(p)' <= Lost(p) + Unbooked[p]
<1> SUFFICES ASSUME NEW p \in Order
             PROVE  Due(p)' <= Due(p) /\ Lost(p)' <= Lost(p) + Unbooked[p]
  OBVIOUS
<1>0. /\ Cardinality(At("created", p)) \in Nat
      /\ Cardinality(At("loaded", p)) \in Nat
      /\ debits[p] \in Nat /\ loads[p] \in Nat
      /\ NotYet(p) \in 0 .. 1 /\ NotYet(p)' \in 0 .. 1
      /\ Due(p) \in Nat /\ Due(p)' \in Nat
  BY DueTypes, DueTypesNext
<1>1. exec' = [e \in Exec |-> Free] /\ UNCHANGED <<order, message, debits, loads>>
  BY DEF ConsumerCrash
<1>2. At("created", p)' = {} /\ At("loaded", p)' = {}
  BY <1>1 DEF At, Free
<1>3. Cardinality(At("created", p))' = 0 /\ Cardinality(At("loaded", p))' = 0
  BY <1>2, FS_EmptySet
<1>4. NotYet(p)' <= NotYet(p) + Cardinality(At("created", p))
                      + Cardinality(At("loaded", p))
  <2>1. CASE Active(p) = {}
    <3>1. NotYet(p)' <= NotYet(p)
      BY <1>1, <2>1 DEF NotYet, Deliverable
    <3>2. QED BY <1>0, <3>1
  <2>2. CASE Active(p) # {}
    <3>1. PICK e \in Exec : exec[e].order = p
      BY <2>2 DEF Active
    <3>2. exec[e].pc # "free"
      BY <3>1, CardAssumption DEF Free, TypeOK
    <3>3. e \in At("created", p) \/ e \in At("loaded", p)
      BY <3>1, <3>2, BusyExec DEF At
    <3>4. \/ Cardinality(At("created", p)) > 0
          \/ Cardinality(At("loaded", p)) > 0
      <4>1. /\ At("created", p) # {} => Cardinality(At("created", p)) > 0
            /\ At("loaded", p) # {} => Cardinality(At("loaded", p)) > 0
        BY CountIn DEF At
      <4>2. QED BY <3>3, <4>1
    <3>5. QED BY <1>0, <3>4
  <2>3. QED BY <2>1, <2>2
<1>5. Due(p)' <= Due(p)
  BY <1>0, <1>1, <1>3, <1>4 DEF Due
<1>6. Lost(p)' <= Lost(p) + Unbooked[p]
  BY <1>0, <1>1, <1>3, <1>5 DEF Lost, Twice, Unbooked
<1>7. QED BY <1>5, <1>6

(***************************************************************************)
(* An order that is checked becomes due, once, if there is enough for it.  *)
(***************************************************************************)
LEMMA CheckCosts ==
  ASSUME TypeOK, TypeOK', Books, Progress,
         NEW o \in Order, NEW w \in Wallet, NEW a \in Amount, OrderCheck(o, w, a)
  PROVE  /\ \A p \in Order : p # o => Bounded(p, 0)
         /\ Due(o) = 0 /\ Lost(o)' <= Lost(o)
         /\ Due(o)' <= 1 /\ (~ EnoughFor(w, a) => Due(o)' <= 0)
         /\ UNCHANGED faults
<1>0. \A p \in Order : /\ Cardinality(At("created", p)) \in Nat
                       /\ Cardinality(At("loaded", p)) \in Nat
                       /\ debits[p] \in Nat /\ loads[p] \in Nat
                       /\ NotYet(p) \in 0 .. 1 /\ NotYet(p)' \in 0 .. 1
                       /\ Due(p) \in Nat /\ Due(p)' \in Nat
  BY DueTypes, DueTypesNext
<1>1. UNCHANGED <<message, exec, debits, loads, faults>> /\ order[o].pc = "idle"
  BY DEF OrderCheck
<1>2. \A p \in Order : p # o => order'[p] = order[p]
  BY DEF OrderCheck
<1>3. \A p \in Order : p # o => Bounded(p, 0)
  <2>1. \A p \in Order : p # o => NotYet(p)' <= NotYet(p)
    BY <1>0, <1>1, <1>2 DEF NotYet, Deliverable, Active
  <2>2. QED BY <1>1, <2>1, StaysPut DEF At
<1>4. /\ message[o] = "none" /\ issued[o] = 0 /\ Active(o) = {}
  BY <1>1 DEF Progress, OnlyOrdered
<1>5. debits[o] = 0
  BY <1>0, <1>4 DEF Books, DebitsAreLoaded, LoadsAreIssued
<1>6. /\ Cardinality(At("created", o)) = 0 /\ Cardinality(At("loaded", o)) = 0
  <2>1. At("created", o) = {} /\ At("loaded", o) = {}
    BY <1>4 DEF At, Active
  <2>2. QED BY <2>1, FS_EmptySet
<1>7. /\ Cardinality(At("created", o))' = 0 /\ Cardinality(At("loaded", o))' = 0
  BY <1>1, <1>6 DEF At
<1>8. Due(o) = 0
  BY <1>0, <1>1, <1>4, <1>5, <1>6 DEF Due, NotYet, Deliverable
<1>9. Due(o)' <= 1
  BY <1>0, <1>1, <1>5, <1>7 DEF Due
<1>10. ASSUME ~ EnoughFor(w, a) PROVE Due(o)' <= 0
  <2>1. order'[o].pc = "refused"
    BY <1>10 DEF OrderCheck, TypeOK
  <2>2. NotYet(o)' = 0
    BY <1>1, <1>4, <2>1 DEF NotYet, Deliverable
  <2>3. QED BY <1>0, <1>1, <1>5, <1>7, <2>2 DEF Due
<1>11. Lost(o)' <= Lost(o)
  BY <1>0, <1>1, <1>6, <1>7, <1>8, <1>9 DEF Lost, Twice
<1>12. QED BY <1>1, <1>3, <1>8, <1>9, <1>10, <1>11

(***************************************************************************)
(* The damage done, and the damage that what is under way may still do, is *)
(* never more than the faults so far.                                      *)
(***************************************************************************)
AllLost == [o \in Order |-> Lost(o)]

Damage == Total(AllLost) <= faults

LEMMA DamageStep ==
  TypeOK /\ TypeOK' /\ Books /\ Progress /\ Damage /\ [Next]_vars => Damage'
<1> SUFFICES ASSUME TypeOK, TypeOK', Books, Progress, Damage, [Next]_vars
             PROVE  Damage'
  OBVIOUS
<1>0. /\ IsFiniteSet(Order) /\ faults \in Nat /\ faults' \in Nat
      /\ \A p \in Order : AllLost[p] \in Int /\ AllLost'[p] \in Int
      /\ \A p \in Order : AllLost[p] = Lost(p) /\ AllLost'[p] = Lost(p)'
  BY CardAssumption, DueTypes, DueTypesNext DEF TypeOK, AllLost
<1>1. /\ SumFunctionOnSet(AllLost, Order) \in Int
      /\ SumFunctionOnSet(AllLost', Order) \in Int
  BY <1>0, SumOut
<1>2. ASSUME NEW o \in Order, NEW k \in 0 .. 1, Costs(o, k) PROVE Damage'
  <2>1. /\ \A p \in Order \ {o} : AllLost'[p] <= AllLost[p]
        /\ AllLost'[o] <= AllLost[o] + k
    BY <1>0, <1>2 DEF Costs, Bounded
  <2>2. SumFunctionOnSet(AllLost', Order) <= SumFunctionOnSet(AllLost, Order) + k
    BY <1>0, <2>1, SumMoves
  <2>3. QED BY <1>0, <1>1, <1>2, <2>2 DEF Damage, Total, Costs
<1>3. ASSUME NEW o \in Order, NEW w \in Wallet, NEW a \in Amount,
             OrderCheck(o, w, a)
      PROVE  Damage'
  <2>1. \A p \in Order : AllLost'[p] <= AllLost[p]
    BY <1>0, <1>3, CheckCosts DEF Bounded
  <2>2. SumFunctionOnSet(AllLost', Order) <= SumFunctionOnSet(AllLost, Order)
    BY <1>0, <2>1, SumAtMost
  <2>3. QED BY <1>0, <1>1, <1>3, <2>2, CheckCosts DEF Damage, Total
<1>4. CASE ConsumerCrash
  <2> DEFINE n == Cardinality({e \in Exec : exec[e].pc # "free"})
             g == [p \in Order |-> AllLost[p] + Unbooked[p]]
  <2>1. n \in Nat
    BY CountIn
  <2>2. \A p \in Order : Unbooked[p] \in Int
    BY DueTypes DEF Unbooked
  <2>3. \A p \in Order : AllLost'[p] <= g[p] /\ g[p] \in Int
    BY <1>0, <1>4, <2>2, CrashCosts
  <2>4. SumFunctionOnSet(AllLost', Order) <= SumFunctionOnSet(g, Order)
    BY <1>0, <2>3, SumAtMost
  <2>5. SumFunctionOnSet(g, Order)
          = SumFunctionOnSet(AllLost, Order) + SumFunctionOnSet(Unbooked, Order)
    BY <1>0, <2>2, SumPlus
  <2>6. SumFunctionOnSet(Unbooked, Order) <= n
    BY LoadedAreBusy DEF Total
  <2>7. SumFunctionOnSet(Unbooked, Order) \in Int
    BY <1>0, <2>2, SumOut
  <2>8. faults' = faults + n
    BY <1>4 DEF ConsumerCrash, Fault
  <2>9. QED
    BY <1>0, <1>1, <2>1, <2>4, <2>5, <2>6, <2>7, <2>8 DEF Damage, Total
<1>5. CASE UNCHANGED vars
  BY <1>5 DEF vars, Damage, Total, AllLost, Lost, Due, NotYet, Deliverable,
              Active, At
<1>6. QED
  BY <1>2, <1>3, <1>4, <1>5, CostStep, HandlerCosts DEF Next, Start

(***************************************************************************)
(* Of an order that is not open, what is due is what was debited.          *)
(***************************************************************************)
LEMMA ClosedIsSettled ==
  ASSUME TypeOK, NEW p \in Order, ~ Open(p)
  PROVE  Due(p) = debits[p] /\ Cardinality(At("loaded", p)) = 0
<1>1. At("created", p) = {} /\ At("loaded", p) = {}
  BY DEF Open, Active, At
<1>2. /\ Cardinality(At("created", p)) = 0 /\ Cardinality(At("loaded", p)) = 0
  BY <1>1, FS_EmptySet
<1>3. NotYet(p) = 0
  BY DEF Open, NotYet, Deliverable
<1>4. QED BY <1>2, <1>3, DueTypes DEF Due

(***************************************************************************)
(* For any number of orders and executions and under every hazard: once no *)
(* order is open, the loads nobody was debited for and the second debits   *)
(* are never more than the executions the faults hit.                      *)
(***************************************************************************)
THEOREM DamageIsBounded == Spec => []FaultsBoundDamage
<1>1. Init => Damage
  <2> SUFFICES ASSUME Init PROVE Damage
    OBVIOUS
  <2>1. \A p \in Order : ~ Open(p) /\ debits[p] = 0 /\ loads[p] = 0
    BY CardAssumption DEF Init, Open, Active, Idle, Free
  <2>2. TypeOK
    BY CardAssumption DEF Init, TypeOK
  <2>3. \A p \in Order : AllLost[p] = 0
    BY <2>1, <2>2, ClosedIsSettled DEF AllLost, Lost, Twice
  <2>4. SumFunctionOnSet(AllLost, Order) = 0
    BY <2>3, CardAssumption, SumZero
  <2>5. QED BY <2>4 DEF Init, Damage, Total
<1>2. TypeOK /\ Damage => FaultsBoundDamage
  <2> SUFFICES ASSUME TypeOK, Damage, Quiet
               PROVE  Total([o \in Order |-> loads[o] - debits[o]])
                        + Total([o \in Order |->
                                   IF debits[o] > 1 THEN debits[o] - 1 ELSE 0])
                      <= faults
    BY DEF FaultsBoundDamage
  <2> DEFINE f == [o \in Order |-> loads[o] - debits[o]]
             g == [o \in Order |-> IF debits[o] > 1 THEN debits[o] - 1 ELSE 0]
  <2>1. \A p \in Order : debits[p] \in Nat /\ loads[p] \in Nat
    BY DEF TypeOK
  <2>2. \A p \in Order : f[p] \in Int /\ g[p] \in Int /\ AllLost[p] = f[p] + g[p]
    BY <2>1, ClosedIsSettled DEF Quiet, AllLost, Lost, Twice
  <2>3. SumFunctionOnSet(AllLost, Order)
          = SumFunctionOnSet(f, Order) + SumFunctionOnSet(g, Order)
    BY <2>2, CardAssumption, SumPlus
  <2>4. QED BY <2>3 DEF Damage, Total
<1>3. CardsInv <=> Books /\ Progress
  BY DEF CardsInv, Books, Progress
<1>4. QED
  BY <1>1, <1>2, <1>3, DamageStep, TypeCorrect, CardsInvariant, PTL DEF Spec

-----------------------------------------------------------------------------
(***************************************************************************)
(* What the orders of a wallet have cost and may still cost it is covered  *)
(* by what it had and the faults so far.                                   *)
(***************************************************************************)
(***************************************************************************)
(* What an order that has not been debited yet may cost: nothing, where a  *)
(* negative top-up makes it earn.                                          *)
(***************************************************************************)
Positive(c) == IF c > 0 THEN c ELSE 0

Paying ==
  [o \in Order |->
     debits[o] * TotalToPay(order[o].amount)
       + (Due(o) - debits[o]) * Positive(TotalToPay(order[o].amount))]

Dearest(m) == m \in Cost /\ \A c \in Cost : c <= m

Covered ==
  \A w \in Wallet, m \in Cost :
    Dearest(m) => SumFunctionOnSet(Paying, OrdersOf(w)) <= Funds + faults * m

LEMMA Times ==
  ASSUME NEW m \in Nat, NEW n \in Nat, NEW c \in Nat, m <= n
  PROVE  m * c <= n * c /\ m * c \in Nat
<1>1. PICK d \in Nat : n = m + d
  <2>1. n - m \in Nat /\ n = m + (n - m)
    OBVIOUS
  <2>2. QED BY <2>1
<1>2. n * c = m * c + d * c
  BY <1>1
<1>3. d * c \in Nat /\ m * c \in Nat
  OBVIOUS
<1>4. QED BY <1>2, <1>3

LEMMA PositiveIsNat ==
  \A c \in Int : Positive(c) \in Nat /\ c <= Positive(c)
  BY DEF Positive

(* Every cost is a number, that of an order that is not placed included.   *)
LEMMA CostIsNumber ==
  ASSUME NEW x \in {Idle} \cup [pc : {"checked", "ordered", "refused"},
                                wallet : Wallet, amount : Amount]
  PROVE  TotalToPay(x.amount) \in Int
<1>1. x.amount \in Int
  <2>1. CASE x = Idle
    BY <2>1 DEF Idle
  <2>2. CASE x # Idle
    <3>1. x.amount \in Amount
      BY <2>2
    <3>2. QED BY <3>1, CardAssumption
  <2>3. QED BY <2>1, <2>2
<1>2. QED BY <1>1, CardAssumption DEF TotalToPay

LEMMA PayTypes ==
  TypeOK => \A p \in Order :
    /\ TotalToPay(order[p].amount) \in Int
    /\ Due(p) \in Nat /\ debits[p] \in Nat /\ debits[p] <= Due(p)
    /\ Paying[p] = debits[p] * TotalToPay(order[p].amount)
                     + (Due(p) - debits[p]) * Positive(TotalToPay(order[p].amount))
    /\ Paying[p] \in Int
    /\ debits[p] * TotalToPay(order[p].amount) \in Int
    /\ debits[p] * TotalToPay(order[p].amount) <= Paying[p]
<1> SUFFICES ASSUME TypeOK, NEW p \in Order
             PROVE
    /\ TotalToPay(order[p].amount) \in Int
    /\ Due(p) \in Nat /\ debits[p] \in Nat /\ debits[p] <= Due(p)
    /\ Paying[p] = debits[p] * TotalToPay(order[p].amount)
                     + (Due(p) - debits[p]) * Positive(TotalToPay(order[p].amount))
    /\ Paying[p] \in Int
    /\ debits[p] * TotalToPay(order[p].amount) \in Int
    /\ debits[p] * TotalToPay(order[p].amount) <= Paying[p]
  OBVIOUS
<1> DEFINE c == TotalToPay(order[p].amount)
           b == debits[p]
           q == Due(p) - debits[p]
<1>1. c \in Int
  BY CostIsNumber DEF TypeOK
<1>2. Due(p) \in Nat /\ b \in Nat /\ b <= Due(p) /\ q \in Nat
  BY DueTypes DEF Due
<1>3. Paying[p] = b * c + q * Positive(c)
  BY DEF Paying
<1>4. Positive(c) \in Nat
  BY <1>1, PositiveIsNat
<1>5. b * c \in Int /\ q * Positive(c) \in Nat
  <2> HIDE DEF b, c, q
  <2>1. b * c \in Int
    BY <1>1, <1>2
  <2>2. QED BY <1>2, <1>4, <2>1, Times
<1>6. b * c <= Paying[p] /\ Paying[p] \in Int
  <2> HIDE DEF b, c, q
  <2>1. QED BY <1>3, <1>5
<1>7. QED BY <1>1, <1>2, <1>3, <1>5, <1>6

LEMMA PayTypesNext ==
  TypeOK' => \A p \in Order :
    /\ Due(p)' \in Nat /\ debits'[p] \in Nat /\ debits'[p] <= Due(p)'
    /\ Paying'[p] = debits'[p] * TotalToPay(order'[p].amount)
                      + (Due(p)' - debits'[p]) * Positive(TotalToPay(order'[p].amount))
    /\ Paying'[p] \in Int
<1> SUFFICES ASSUME TypeOK', NEW p \in Order
             PROVE
    /\ Due(p)' \in Nat /\ debits'[p] \in Nat /\ debits'[p] <= Due(p)'
    /\ Paying'[p] = debits'[p] * TotalToPay(order'[p].amount)
                      + (Due(p)' - debits'[p]) * Positive(TotalToPay(order'[p].amount))
    /\ Paying'[p] \in Int
  OBVIOUS
<1> DEFINE c == TotalToPay(order'[p].amount)
           b == debits'[p]
           q == Due(p)' - debits'[p]
<1>1. c \in Int
  BY CostIsNumber DEF TypeOK
<1>2. Due(p)' \in Nat /\ b \in Nat /\ b <= Due(p)' /\ q \in Nat
  BY DueTypesNext DEF Due
<1>3. Paying'[p] = b * c + q * Positive(c)
  BY DEF Paying
<1>4. Positive(c) \in Nat
  BY <1>1, PositiveIsNat
<1>5. b * c \in Int /\ q * Positive(c) \in Nat
  <2> HIDE DEF b, c, q
  <2>1. b * c \in Int
    BY <1>1, <1>2
  <2>2. QED BY <1>2, <1>4, <2>1, Times
<1>6. Paying'[p] \in Int
  <2> HIDE DEF b, c, q
  <2>1. QED BY <1>3, <1>5
<1>7. QED BY <1>2, <1>3, <1>6

(* No debit is taken back.                                                 *)
LEMMA DebitsGrow ==
  ASSUME TypeOK, TypeOK', [Next]_vars
  PROVE  \A p \in Order : debits[p] <= debits'[p]
<1>1. debits \in [Order -> Nat] /\ debits' \in [Order -> Nat]
  BY DEF TypeOK
<1>2. UNCHANGED debits \/ \E o \in Order : debits' = [debits EXCEPT ![o] = @ + 1]
  BY DEF Next, vars, OrderCheck, OrderCommit, OrderAbort, Start, CreateCard,
         CreateCardFails, HandlerStep, LoadCard, LoadCardFails, CommitDebit,
         DebitFails, ConsumerCrash, Redeliver, TypeOK, Free
<1>3. QED BY <1>1, <1>2

(***************************************************************************)
(* An order of which at most k more debits are due costs its wallet at     *)
(* most k times the dearest order more: a debit that takes place costs     *)
(* what was reckoned with, or less.                                        *)
(***************************************************************************)
LEMMA PaysAtMost ==
  ASSUME TypeOK, TypeOK', NEW p \in Order, NEW k \in 0 .. 1, NEW m \in Nat,
         TotalToPay(order[p].amount) <= m, debits[p] <= debits'[p],
         Due(p)' <= Due(p) + k, order'[p].amount = order[p].amount
  PROVE  Paying'[p] <= Paying[p] + k * m
<1> DEFINE c == TotalToPay(order[p].amount)
           b == debits[p]
           d == debits'[p] - debits[p]
           q == Due(p) - debits[p]
           r == Due(p)' - debits'[p]
           P == Positive(c)
<1>1. /\ c \in Int /\ b \in Nat /\ d \in Nat /\ q \in Nat /\ r \in Nat
      /\ debits'[p] = b + d /\ d + r <= q + k /\ c <= m
  BY PayTypes, PayTypesNext
<1>2. Paying[p] = b * c + q * P /\ Paying'[p] = (b + d) * c + r * P
  BY <1>1, PayTypes, PayTypesNext
<1>3. P \in Nat /\ c <= P /\ P <= m
  BY <1>1, PositiveIsNat DEF Positive
<1>4. Paying[p] \in Int /\ Paying'[p] \in Int
  BY PayTypes, PayTypesNext
<1> HIDE DEF b, c, d, q, r, P
<1>5. (d + r) * P <= (q + k) * P
  BY <1>1, <1>3, Times
<1>6. (d + r) * P = d * P + r * P /\ (q + k) * P = q * P + k * P
  BY <1>1, <1>3
<1>7. (b + d) * c = b * c + d * c
  BY <1>1
<1>8. d * c <= d * P
  <2>1. P - c \in Nat
    BY <1>1, <1>3
  <2>2. d * (P - c) \in Nat
    BY <1>1, <2>1, Times
  <2>3. d * (P - c) = d * P - d * c
    BY <1>1, <1>3
  <2>4. d * P \in Int /\ d * c \in Int
    BY <1>1, <1>3
  <2>5. QED BY <2>2, <2>3, <2>4
<1>9. k * P <= k * m
  <2>1. CASE k = 0
    BY <1>3, <2>1
  <2>2. CASE k = 1
    BY <1>3, <2>2
  <2>3. QED BY <2>1, <2>2
<1>10. /\ b * c \in Int /\ d * c \in Int /\ d * P \in Int /\ r * P \in Int
       /\ q * P \in Int /\ k * P \in Int /\ k * m \in Int
  BY <1>1, <1>3
<1>11. QED BY <1>2, <1>5, <1>6, <1>7, <1>8, <1>9, <1>10

(* A placed order costs no more than the dearest, and one of nothing none. *)
LEMMA CostsWithin ==
  ASSUME TypeOK, NEW m, Dearest(m)
  PROVE  /\ m \in Nat
         /\ \A p \in Order : order[p].wallet # Null =>
              TotalToPay(order[p].amount) <= m
         /\ \A a \in Amount : TotalToPay(a) \in Int /\ TotalToPay(a) <= m
<1>1. \A a \in Amount : TotalToPay(a) \in Int /\ TotalToPay(a) <= m
  BY CardAssumption DEF Dearest, Cost, TotalToPay
<1>2. m \in Nat
  <2>1. 0 <= m
    BY DEF Dearest, Cost
  <2>2. m = 0 \/ \E a \in Amount : m = TotalToPay(a)
    BY DEF Dearest, Cost
  <2>3. m \in Int
    BY <1>1, <2>2
  <2>4. QED BY <2>1, <2>3
<1>3. ASSUME NEW p \in Order, order[p].wallet # Null
      PROVE  TotalToPay(order[p].amount) <= m
  <2>1. order[p] # Idle
    BY <1>3 DEF Idle
  <2>2. order[p] \in [pc : {"checked", "ordered", "refused"},
                      wallet : Wallet, amount : Amount]
    BY <2>1 DEF TypeOK
  <2>3. order[p].amount \in Amount
    BY <2>2
  <2>4. QED BY <1>1, <2>3
<1>4. QED BY <1>1, <1>2, <1>3

(***************************************************************************)
(* Of a wallet none of whose orders is open, its balance tells what is     *)
(* due.                                                                    *)
(***************************************************************************)
LEMMA SettledBalance ==
  ASSUME TypeOK, NEW w \in Wallet, \A p \in OrdersOf(w) : ~ Open(p)
  PROVE  SumFunctionOnSet(Paying, OrdersOf(w)) = Funds - Balance(w)
<1> DEFINE paid == [o \in Order |-> debits[o] * TotalToPay(order[o].amount)]
<1>1. IsFiniteSet(OrdersOf(w)) /\ OrdersOf(w) \subseteq Order
  BY CardAssumption, FS_Subset DEF OrdersOf
<1>2. \A p \in OrdersOf(w) : Paying[p] \in Int /\ paid[p] = Paying[p]
  <2> SUFFICES ASSUME NEW p \in OrdersOf(w)
               PROVE  Paying[p] \in Int /\ paid[p] = Paying[p]
    OBVIOUS
  <2>1. p \in Order /\ Due(p) - debits[p] = 0 /\ debits[p] \in Nat
    BY <1>1, PayTypes, ClosedIsSettled
  <2>2. TotalToPay(order[p].amount) \in Int
    BY <2>1, PayTypes
  <2>3. Positive(TotalToPay(order[p].amount)) \in Nat
    BY <2>2, PositiveIsNat
  <2>4. debits[p] * TotalToPay(order[p].amount) \in Int
    BY <2>1, <2>2
  <2>5. Paying[p] = debits[p] * TotalToPay(order[p].amount)
    BY <2>1, <2>3, <2>4, PayTypes
  <2>6. QED BY <2>1, <2>4, <2>5
<1>3. SumFunctionOnSet(paid, OrdersOf(w)) = SumFunctionOnSet(Paying, OrdersOf(w))
  BY <1>1, <1>2, SumAgree
<1>4. SumFunctionOnSet(Paying, OrdersOf(w)) \in Int
  BY <1>1, <1>2, SumOut
<1>5. QED BY <1>3, <1>4, CardAssumption DEF Balance

LEMMA CoveredStep ==
  ASSUME TypeOK, TypeOK', Books, Progress, Covered, [Next]_vars,
         "parallel_orders" \notin Hazard
  PROVE  Covered'
<1> SUFFICES ASSUME NEW v \in Wallet, NEW K \in Cost, Dearest(K)
             PROVE  SumFunctionOnSet(Paying', OrdersOf(v)') <= Funds + faults' * K
  BY DEF Covered, Dearest, Cost
<1> DEFINE Before == SumFunctionOnSet(Paying, OrdersOf(v))
           After == SumFunctionOnSet(Paying', OrdersOf(v)')
<1>1. K \in Nat /\ Funds \in Nat /\ faults \in Nat /\ faults' \in Nat
  BY CardAssumption, CostsWithin DEF TypeOK
<1>2. /\ IsFiniteSet(OrdersOf(v)) /\ OrdersOf(v) \subseteq Order
      /\ IsFiniteSet(OrdersOf(v)') /\ OrdersOf(v)' \subseteq Order
  BY CardAssumption, FS_Subset DEF OrdersOf
<1>3. \A p \in Order : Paying[p] \in Int /\ Paying'[p] \in Int
  BY PayTypes, PayTypesNext
<1>4. Before \in Int /\ After \in Int
  BY <1>2, <1>3, SumOut
<1>5. Before <= Funds + faults * K
  BY DEF Covered
<1>6. faults * K \in Nat
  BY <1>1, Times
<1>7. ASSUME NEW p \in OrdersOf(v), Due(p)' <= Due(p),
              order'[p].amount = order[p].amount
       PROVE  Paying'[p] <= Paying[p]
  <2>1. TotalToPay(order[p].amount) <= K
    BY <1>2, CostsWithin, CardAssumption DEF OrdersOf
  <2>2. Due(p)' <= Due(p) + 0
    BY <1>2, <1>7, DueTypes, DueTypesNext
  <2>3. Paying'[p] <= Paying[p] + 0 * K
    BY <1>1, <1>2, <1>7, <2>1, <2>2, DebitsGrow, PaysAtMost
  <2>4. QED BY <1>1, <1>2, <1>3, <2>3
<1>8. ASSUME NEW o \in Order, NEW k \in 0 .. 1, Costs(o, k)
      PROVE  After <= Funds + faults' * K
  <2>1. OrdersOf(v)' = OrdersOf(v)
    BY <1>8 DEF Costs, OrdersOf
  <2>2. \A p \in OrdersOf(v) : p # o => Paying'[p] <= Paying[p]
    <3>1. \A p \in Order : p # o => Due(p)' <= Due(p)
      BY <1>8, DueTypes, DueTypesNext DEF Costs, Bounded
    <3>2. \A p \in Order : order'[p].amount = order[p].amount
      BY <1>8 DEF Costs
    <3>3. QED BY <1>2, <1>7, <3>1, <3>2
  <2>3. k * K \in Nat /\ faults' * K = faults * K + k * K
    <3>1. CASE k = 0
      BY <1>1, <1>6, <1>8, <3>1 DEF Costs
    <3>2. CASE k = 1
      BY <1>1, <1>6, <1>8, <3>2 DEF Costs
    <3>3. QED BY <3>1, <3>2
  <2>4. CASE o \in OrdersOf(v)
    <3>1. TotalToPay(order[o].amount) <= K
      BY <1>2, <2>4, CostsWithin, CardAssumption DEF OrdersOf
    <3>2. Due(o)' <= Due(o) + k
      BY <1>8, DueTypes, DueTypesNext DEF Costs, Bounded
    <3>3. Paying'[o] <= Paying[o] + k * K
      BY <1>1, <1>8, <3>1, <3>2, DebitsGrow, PaysAtMost DEF Costs
    <3>4. After <= Before + k * K
      <4>1. \A p \in OrdersOf(v) : Paying[p] \in Int /\ Paying'[p] \in Int
        BY <1>2, <1>3
      <4>2. \A p \in OrdersOf(v) \ {o} : Paying'[p] <= Paying[p]
        BY <2>2
      <4>3. SumFunctionOnSet(Paying', OrdersOf(v))
              <= SumFunctionOnSet(Paying, OrdersOf(v)) + k * K
        BY <1>2, <2>3, <2>4, <3>3, <4>1, <4>2, SumMoves
      <4>4. QED BY <2>1, <4>3
    <3>5. After <= Funds + (faults * K + k * K)
      <4> DEFINE X == faults * K
                 Y == k * K
      <4>1. X \in Nat /\ Y \in Nat /\ Before <= Funds + X /\ After <= Before + Y
        BY <1>5, <1>6, <2>3, <3>4
      <4> HIDE DEF X, Y, Before, After
      <4>2. After <= Funds + (X + Y)
        BY <1>1, <1>4, <4>1
      <4>3. QED BY <4>2 DEF X, Y
    <3>6. QED BY <2>3, <3>5
  <2>5. CASE o \notin OrdersOf(v)
    <3>1. \A p \in OrdersOf(v) : /\ Paying'[p] \in Int /\ Paying[p] \in Int
                                /\ Paying'[p] <= Paying[p]
      BY <1>2, <1>3, <2>2, <2>5
    <3>2. SumFunctionOnSet(Paying', OrdersOf(v)) <= Before
      BY <1>2, <3>1, SumAtMost
    <3>3. After <= Funds + (faults * K + k * K)
      <4> DEFINE X == faults * K
                 Y == k * K
      <4>1. X \in Nat /\ Y \in Nat /\ Before <= Funds + X /\ After <= Before
        BY <1>5, <1>6, <2>1, <2>3, <3>2
      <4> HIDE DEF X, Y, Before, After
      <4>2. After <= Funds + (X + Y)
        BY <1>1, <1>4, <4>1
      <4>3. QED BY <4>2 DEF X, Y
    <3>4. QED BY <2>3, <3>3
  <2>6. QED BY <2>4, <2>5
<1>9. ASSUME NEW o \in Order, NEW w \in Wallet, NEW a \in Amount,
             OrderCheck(o, w, a)
      PROVE  After <= Funds + faults' * K
  <2>1. /\ \A p \in Order : p # o => order'[p] = order[p]
        /\ order'[o].wallet = w /\ order'[o].amount = a
        /\ order[o].wallet = Null /\ faults' = faults
    <3>1. order[o] = Idle
      BY <1>9 DEF OrderCheck, TypeOK
    <3>2. QED BY <1>9, <3>1 DEF OrderCheck, TypeOK, Idle
  <2>2. o \notin OrdersOf(v)
    BY <2>1, CardAssumption DEF OrdersOf
  <2>3. \A p \in Order : p # o => Due(p)' <= Due(p)
    BY <1>9, CheckCosts, DueTypes, DueTypesNext DEF Bounded
  <2>4. \A p \in OrdersOf(v) : /\ Paying'[p] \in Int /\ Paying[p] \in Int
                              /\ Paying'[p] <= Paying[p]
    <3>1. \A p \in OrdersOf(v) : p \in Order /\ p # o
      BY <1>2, <2>2
    <3>2. QED BY <1>3, <1>7, <2>1, <2>3, <3>1
  <2>5. SumFunctionOnSet(Paying', OrdersOf(v)) <= Before
    BY <1>2, <2>4, SumAtMost
  <2>6. SumFunctionOnSet(Paying', OrdersOf(v)) \in Int
    BY <1>2, <2>4, SumOut
  <2>7. CASE v # w
    <3>1. OrdersOf(v)' = OrdersOf(v)
      BY <2>1, <2>2, <2>7 DEF OrdersOf
    <3>2. QED BY <1>1, <1>4, <1>5, <1>6, <2>1, <2>5, <3>1
  <2>8. CASE v = w
    <3>1. OrdersOf(v)' = OrdersOf(v) \cup {o}
      BY <2>1, <2>2, <2>8 DEF OrdersOf
    <3>2. After = SumFunctionOnSet(Paying', OrdersOf(v)) + Paying'[o]
      <4>1. \A p \in OrdersOf(v) \cup {o} : Paying'[p] \in Int
        BY <1>2, <1>3
      <4>2. SumFunctionOnSet(Paying', OrdersOf(v) \cup {o})
              = SumFunctionOnSet(Paying', OrdersOf(v)) + Paying'[o]
        BY <1>2, <2>2, <4>1, SumAdd
      <4>3. QED BY <3>1, <4>2
    <3>3. /\ TotalToPay(a) \in Int /\ Due(o)' \in Nat
          /\ debits'[o] \in Nat /\ debits'[o] <= Due(o)'
          /\ Paying'[o] = debits'[o] * TotalToPay(a)
                            + (Due(o)' - debits'[o]) * Positive(TotalToPay(a))
          /\ Paying'[o] \in Int
      BY <2>1, CostsWithin, PayTypesNext
    <3>4. Positive(TotalToPay(a)) \in Nat /\ TotalToPay(a) <= Positive(TotalToPay(a))
      BY <3>3, PositiveIsNat
    <3>5. CASE ~ EnoughFor(w, a)
      <4>1. Due(o)' = 0 /\ debits'[o] = 0
        BY <1>9, <3>3, <3>5, CheckCosts
      <4>2. Paying'[o] = 0
        BY <3>3, <3>4, <4>1
      <4>3. QED BY <1>1, <1>4, <1>5, <1>6, <2>1, <2>5, <2>6, <3>2, <4>2
    <3>6. CASE EnoughFor(w, a)
      <4>1. \A p \in OrdersOf(v) : ~ Open(p)
        BY <1>9, <2>8 DEF OrderCheck, MayOrder
      <4>2. Before = Funds - Balance(v)
        BY <4>1, SettledBalance
      <4>3. Balance(v) \in Int
        <5> DEFINE paid == [p \in Order |-> debits[p] * TotalToPay(order[p].amount)]
        <5>1. \A p \in OrdersOf(v) : paid[p] \in Int
          BY <1>2, PayTypes
        <5>2. SumFunctionOnSet(paid, OrdersOf(v)) \in Int
          BY <1>2, <5>1, SumOut
        <5>3. QED BY <1>1, <5>2 DEF Balance
      <4>4. TotalToPay(a) <= Balance(v)
        <5> DEFINE c == TotalToPay(a)
                   f == Balance(w)
        <5>1. ~ (f < c)
          BY <3>6 DEF EnoughFor
        <5>2. c \in Int /\ f \in Int
          BY <2>8, <3>3, <4>3
        <5> HIDE DEF c, f
        <5>3. c <= f
          BY <5>1, <5>2
        <5>4. QED BY <2>8, <5>3 DEF c, f
      <4>5. /\ Due(o)' - debits'[o] \in 0 .. 1 /\ debits'[o] \in 0 .. 1
            /\ Due(o)' <= 1
        <5>1. Due(o)' <= 1
          BY <1>9, <3>3, CheckCosts
        <5>2. \A x, y \in Nat : y <= x /\ x <= 1 => x - y \in 0 .. 1 /\ y \in 0 .. 1
          OBVIOUS
        <5>3. Due(o)' \in Nat /\ debits'[o] \in Nat /\ debits'[o] <= Due(o)'
          BY <3>3
        <5>4. QED BY <5>1, <5>2, <5>3
      <4>6. Paying'[o] <= Positive(TotalToPay(a))
        <5> DEFINE c == TotalToPay(a)
                   P == Positive(c)
        <5>1. CASE debits'[o] = 0
          <6>1. Paying'[o] = 0 * c + (Due(o)' - debits'[o]) * P
            BY <3>3, <5>1
          <6>2. Due(o)' - debits'[o] = 0 \/ Due(o)' - debits'[o] = 1
            BY <4>5
          <6> HIDE DEF c
          <6>3. QED BY <3>3, <3>4, <6>1, <6>2 DEF c
        <5>2. CASE debits'[o] = 1
          <6>1. Due(o)' - debits'[o] = 0
            BY <3>3, <4>5, <5>2
          <6>2. Paying'[o] = 1 * c + 0 * P
            BY <3>3, <5>2, <6>1
          <6>3. QED BY <3>3, <3>4, <6>2
        <5>3. QED BY <4>5, <5>1, <5>2
      <4>7. CASE TotalToPay(a) > 0
        <5>1. Paying'[o] <= TotalToPay(a)
          BY <3>3, <4>6, <4>7 DEF Positive
        <5>2. QED
          BY <1>1, <1>4, <1>6, <2>1, <2>5, <2>6, <3>2, <3>3, <4>2, <4>3, <4>4, <5>1
      <4>8. CASE ~ (TotalToPay(a) > 0)
        <5>1. Paying'[o] <= 0
          BY <3>3, <4>6, <4>8 DEF Positive
        <5>2. QED
          BY <1>1, <1>4, <1>5, <1>6, <2>1, <2>5, <2>6, <3>2, <3>3, <5>1
      <4>9. QED BY <4>7, <4>8
    <3>7. QED BY <3>5, <3>6
  <2>9. QED BY <2>7, <2>8
<1>10. CASE ConsumerCrash
  <2>1. UNCHANGED order
    BY <1>10 DEF ConsumerCrash
  <2>2. OrdersOf(v)' = OrdersOf(v)
    BY <2>1 DEF OrdersOf
  <2>3. \A p \in OrdersOf(v) : /\ Paying'[p] \in Int /\ Paying[p] \in Int
                              /\ Paying'[p] <= Paying[p]
    BY <1>2, <1>3, <1>10, <1>7, <2>1, CrashCosts
  <2>4. After <= Before
    BY <1>2, <2>2, <2>3, SumAtMost
  <2>5. PICK n \in Nat : faults' = faults + n
    BY <1>10, CountIn DEF ConsumerCrash, Fault
  <2>6. faults * K <= faults' * K /\ faults' * K \in Nat
    BY <1>1, <2>5, Times
  <2>7. QED
    <3> DEFINE X == faults * K
               Y == faults' * K
    <3>1. /\ X \in Nat /\ Y \in Nat /\ X <= Y
          /\ Before <= Funds + X /\ After <= Before
      BY <1>5, <1>6, <2>4, <2>6
    <3> HIDE DEF X, Y, Before, After
    <3>2. After <= Funds + Y
      BY <1>1, <1>4, <3>1
    <3>3. QED BY <3>2 DEF Y, After
<1>11. CASE UNCHANGED vars
  <2>1. After = Before /\ faults' = faults
    BY <1>11 DEF vars, Paying, OrdersOf, Due, NotYet, Deliverable, Active, At
  <2>2. QED BY <1>5, <2>1
<1>12. QED
  BY <1>8, <1>9, <1>10, <1>11, CostStep, HandlerCosts DEF Next, Start

(***************************************************************************)
(* "Check if wallet balance is enough", for any orders and executions: as  *)
(* long as a wallet has one order open at a time, only debits repeated by  *)
(* faults overdraw it, and by no more than their price.                    *)
(***************************************************************************)
THEOREM OverdraftIsBounded ==
  ASSUME "parallel_orders" \notin Hazard
  PROVE  Spec => []OverdraftBounded
<1>1. Init => Covered
  <2> SUFFICES ASSUME Init, NEW w \in Wallet, NEW m \in Cost
               PROVE  SumFunctionOnSet(Paying, OrdersOf(w)) <= Funds + faults * m
    BY DEF Covered
  <2>1. OrdersOf(w) = {}
    BY CardAssumption DEF Init, OrdersOf, Idle
  <2>2. SumFunctionOnSet(Paying, OrdersOf(w)) = 0
    BY <2>1, SumEmpty
  <2>3. m \in Int /\ Funds \in Nat
    BY CardAssumption DEF Cost, TotalToPay
  <2>4. QED BY <2>2, <2>3 DEF Init
<1>2. TypeOK /\ Covered => OverdraftBounded
  <2> SUFFICES ASSUME TypeOK, Covered, NEW w \in Wallet, NEW m \in Cost,
                      Dearest(m)
               PROVE  Balance(w) >= - (faults * m)
    BY DEF OverdraftBounded, Dearest
  <2> DEFINE paid == [o \in Order |-> debits[o] * TotalToPay(order[o].amount)]
  <2>1. IsFiniteSet(OrdersOf(w)) /\ OrdersOf(w) \subseteq Order
    BY CardAssumption, FS_Subset DEF OrdersOf
  <2>2. \A p \in OrdersOf(w) :
          paid[p] \in Int /\ Paying[p] \in Int /\ paid[p] <= Paying[p]
    BY <2>1, PayTypes
  <2>3. SumFunctionOnSet(paid, OrdersOf(w)) <= SumFunctionOnSet(Paying, OrdersOf(w))
    BY <2>1, <2>2, SumAtMost
  <2>4. /\ SumFunctionOnSet(paid, OrdersOf(w)) \in Int
        /\ SumFunctionOnSet(Paying, OrdersOf(w)) \in Int
    BY <2>1, <2>2, SumOut
  <2>5. SumFunctionOnSet(Paying, OrdersOf(w)) <= Funds + faults * m
    BY DEF Covered
  <2>6. faults * m \in Nat /\ Funds \in Nat
    BY CardAssumption, CostsWithin, Times DEF TypeOK
  <2>7. QED BY <2>3, <2>4, <2>5, <2>6 DEF Balance
<1>3. CardsInv <=> Books /\ Progress
  BY DEF CardsInv, Books, Progress
<1>4. TypeOK /\ TypeOK' /\ Books /\ Progress /\ Covered /\ [Next]_vars => Covered'
  BY CoveredStep
<1>5. QED
  BY <1>1, <1>2, <1>3, <1>4, TypeCorrect, CardsInvariant, PTL DEF Spec

-----------------------------------------------------------------------------
(***************************************************************************)
(* BlockIsLast for any cards, any links and any number of events in        *)
(* flight.  It is not inductive: what the provider does next depends on    *)
(* the events still in flight, so OneMindInFlight says that those of a     *)
(* card nobody doubts want what the last request wants.                    *)
(***************************************************************************)

\* The request that decides has put an event on its topic.
WantedWasAsked ==
  \A c \in Plastic : wanted[c] # "none" => wanted[c] \in asked[c]

\* The event of a card that is not linked can only fail.
UnlinkedWaits ==
  \A c \in Plastic \ (Linked \cup unsure) :
    wanted[c] # "none" => flight[c][wanted[c]] > 0

ControlInv ==
  /\ CardControlTypeOK /\ ListIsLast
  /\ \A c \in Linked \ unsure : Landed(c)
  /\ \A c \in Plastic \ Linked : NeverLinked(c)
  /\ OneMindInFlight /\ WantedWasAsked /\ UnlinkedWaits

LEMMA OppositeIsOther ==
  \A t \in Topic : Opposite(t) \in Topic /\ Opposite(t) # t /\ t # "none"
  BY DEF Topic, Opposite

LEMMA ControlStart == CardControlInit => ControlInv
<1> SUFFICES ASSUME CardControlInit PROVE ControlInv
  OBVIOUS
<1> USE CardControlAssumption
<1>1. CardControlTypeOK
  BY DEF CardControlInit, CardControlTypeOK, NoList, Topic
<1>2. ListIsLast
  BY DEF CardControlInit, ListIsLast, NoList
<1>3. \A c \in Plastic : Landed(c) /\ NeverLinked(c)
  BY DEF CardControlInit, Landed, NeverLinked
<1>4. OneMindInFlight /\ WantedWasAsked /\ UnlinkedWaits
  BY DEF CardControlInit, OneMindInFlight, WantedWasAsked, UnlinkedWaits
<1> QED
  BY <1>1, <1>2, <1>3, <1>4 DEF ControlInv

\* An event that is put on a topic, or taken from it, changes one count.
LEMMA CountedFlight ==
  ASSUME CardControlTypeOK, NEW c \in Plastic, NEW t \in Topic,
         Commit(c, t) \/ Consume(c, t)
  PROVE  /\ flight' \in [Plastic -> [Topic -> 0 .. MaxFlight]]
         /\ \A d \in Plastic, s \in Topic :
              d # c \/ s # t => flight'[d][s] = flight[d][s]
         /\ Commit(c, t) => flight'[c][t] > 0
<1>0. /\ flight \in [Plastic -> [Topic -> 0 .. MaxFlight]]
      /\ flight[c] \in [Topic -> 0 .. MaxFlight] /\ flight[c][t] \in 0 .. MaxFlight
  BY DEF CardControlTypeOK
<1>1. PICK n \in 0 .. MaxFlight :
        flight' = [flight EXCEPT ![c] = [flight[c] EXCEPT ![t] = n]]
        /\ (Commit(c, t) => n > 0)
  <2>1. CASE Commit(c, t)
    <3>1. flight[c][t] + 1 \in 0 .. MaxFlight /\ flight[c][t] + 1 > 0
      BY <1>0, <2>1, CardControlAssumption DEF Commit
    <3> QED
      BY <2>1, <3>1 DEF Commit
  <2>2. CASE Consume(c, t) /\ ~ Commit(c, t)
    <3>1. flight[c][t] - 1 \in 0 .. MaxFlight
      BY <1>0, <2>2, CardControlAssumption DEF Consume
    <3> QED
      BY <2>2, <3>1 DEF Consume
  <2> QED
    BY <2>1, <2>2
<1> QED
  BY <1>0, <1>1

-----------------------------------------------------------------------------
(* The steps that put an event in flight or take it out.                   *)

LEMMA RequestStep ==
  ASSUME ControlInv, NEW c \in Plastic, NEW t \in Topic, RequestFreeze(c, t)
  PROVE  ControlInv'
<1> USE CardControlAssumption DEF RequestFreeze
<1>0. CardControlTypeOK
  BY DEF ControlInv
<1>1. /\ flight' \in [Plastic -> [Topic -> 0 .. MaxFlight]]
      /\ \A d \in Plastic, s \in Topic :
           d # c \/ s # t => flight'[d][s] = flight[d][s]
      /\ flight'[c][t] > 0
  BY <1>0, CountedFlight
<1>2. /\ \A d \in Plastic \ {c} :
           /\ wanted'[d] = wanted[d] /\ asked'[d] = asked[d]
           /\ frozen'[d] = frozen[d] /\ (d \in unsure' <=> d \in unsure)
      /\ wanted'[c] = t /\ asked'[c] = asked[c] \cup {t} /\ frozen' = frozen
      /\ c \in unsure' <=> flight[c][Opposite(t)] > 0
  BY <1>0 DEF Doubt, CardControlTypeOK
<1>3. CardControlTypeOK'
  <2>1. list' \in [pc : {"none", "reading", "shown"}, cards : SUBSET Plastic,
                   blocked : SUBSET Plastic, moving : SUBSET Plastic]
    BY <1>0 DEF CardControlTypeOK, Moves
  <2>2. /\ asked' \in [Plastic -> SUBSET Topic]
        /\ wanted' \in [Plastic -> Topic \cup {"none"}]
        /\ unsure' \subseteq Plastic
        /\ frozen' \in [Plastic -> BOOLEAN] /\ minted' \in SUBSET Plastic
    BY <1>0 DEF CardControlTypeOK, Doubt
  <2> QED
    BY <1>1, <2>1, <2>2 DEF CardControlTypeOK
<1>4. ListIsLast'
  <2>1. /\ list'.cards = list.cards /\ list'.blocked = list.blocked
        /\ list'.pc = list.pc /\ list'.moving = list.moving \cup {c}
    BY <1>0 DEF CardControlTypeOK, Moves
  <2>2. list.cards \subseteq Plastic
    BY <1>0 DEF CardControlTypeOK
  <2> QED
    BY <1>2, <2>1, <2>2 DEF ControlInv, ListIsLast
<1>5. \A d \in Linked \ unsure' : Landed(d)'
  BY <1>1, <1>2 DEF ControlInv, Landed
<1>6. \A d \in Plastic \ Linked : NeverLinked(d)'
  BY <1>2 DEF ControlInv, NeverLinked
<1>7. OneMindInFlight'
  <2> SUFFICES ASSUME NEW d \in Plastic \ unsure'
               PROVE  IF wanted'[d] = "none"
                      THEN \A s \in Topic : s \notin asked'[d] /\ flight'[d][s] = 0
                      ELSE /\ wanted'[d] \in asked'[d]
                           /\ flight'[d][Opposite(wanted'[d])] = 0
    BY DEF OneMindInFlight
  <2>1. CASE d = c
    <3>1. flight[c][Opposite(t)] = 0
      BY <1>0, <1>2, <2>1, OppositeIsOther DEF CardControlTypeOK
    <3> QED
      BY <1>1, <1>2, <2>1, <3>1, OppositeIsOther
  <2>2. CASE d # c
    <3>1. wanted[d] \in Topic \cup {"none"}
      BY <1>0 DEF CardControlTypeOK
    <3> QED
      BY <1>1, <1>2, <2>2, <3>1, OppositeIsOther DEF ControlInv, OneMindInFlight
  <2> QED
    BY <2>1, <2>2
<1>8. WantedWasAsked'
  BY <1>2 DEF ControlInv, WantedWasAsked
<1>9. UnlinkedWaits'
  BY <1>0, <1>1, <1>2 DEF ControlInv, UnlinkedWaits, CardControlTypeOK
<1> QED
  BY <1>3, <1>4, <1>5, <1>6, <1>7, <1>8, <1>9 DEF ControlInv

LEMMA AgainStep ==
  ASSUME ControlInv, NEW c \in Plastic, NEW t \in Topic, EventAgain(c, t)
  PROVE  ControlInv'
<1> USE CardControlAssumption DEF EventAgain
<1>0. CardControlTypeOK
  BY DEF ControlInv
<1>1. /\ flight' \in [Plastic -> [Topic -> 0 .. MaxFlight]]
      /\ \A d \in Plastic, s \in Topic :
           d # c \/ s # t => flight'[d][s] = flight[d][s]
      /\ flight'[c][t] > 0
  BY <1>0, CountedFlight
<1>2. /\ \A d \in Plastic \ {c} : d \in unsure' <=> d \in unsure
      /\ c \in unsure' <=> c \in unsure \/ t # wanted[c]
      /\ unsure' \subseteq Plastic
  BY <1>0 DEF Doubt, CardControlTypeOK
<1>3. CardControlTypeOK'
  BY <1>0, <1>1, <1>2 DEF CardControlTypeOK
<1>4. ListIsLast'
  BY DEF ControlInv, ListIsLast
<1>5. \A d \in Linked \ unsure' : Landed(d)'
  BY <1>1, <1>2 DEF ControlInv, Landed
<1>6. \A d \in Plastic \ Linked : NeverLinked(d)'
  BY DEF ControlInv, NeverLinked
<1>7. OneMindInFlight'
  <2> SUFFICES ASSUME NEW d \in Plastic \ unsure'
               PROVE  IF wanted[d] = "none"
                      THEN \A s \in Topic : s \notin asked[d] /\ flight'[d][s] = 0
                      ELSE /\ wanted[d] \in asked[d]
                           /\ flight'[d][Opposite(wanted[d])] = 0
    BY DEF OneMindInFlight
  <2>1. wanted[d] \in Topic \cup {"none"} /\ d \notin unsure
    BY <1>0, <1>2 DEF CardControlTypeOK
  <2>2. d = c => wanted[d] = t
    BY <1>2
  <2> QED
    BY <1>1, <2>1, <2>2, OppositeIsOther DEF ControlInv, OneMindInFlight
<1>8. WantedWasAsked'
  BY DEF ControlInv, WantedWasAsked
<1>9. UnlinkedWaits'
  BY <1>0, <1>1, <1>2 DEF ControlInv, UnlinkedWaits, CardControlTypeOK
<1> QED
  BY <1>3, <1>4, <1>5, <1>6, <1>7, <1>8, <1>9 DEF ControlInv

\* The provider was asked for what nobody contradicts.
LEMMA HandleStep ==
  ASSUME ControlInv, NEW c \in Plastic, NEW t \in Topic, HandleFreeze(c, t)
  PROVE  ControlInv'
<1> USE CardControlAssumption DEF HandleFreeze
<1>0. CardControlTypeOK
  BY DEF ControlInv
<1>1. /\ flight' \in [Plastic -> [Topic -> 0 .. MaxFlight]]
      /\ \A d \in Plastic, s \in Topic :
           d # c \/ s # t => flight'[d][s] = flight[d][s]
      /\ flight[c][t] > 0
  BY <1>0, CountedFlight DEF Consume
<1>2. /\ \A d \in Plastic \ {c} : d \in unsure' <=> d \in unsure
      /\ c \in unsure' <=> c \in unsure /\ ~ Settled(c, t)
      /\ unsure' \subseteq Plastic
      /\ \A d \in Plastic \ {c} : frozen'[d] = frozen[d]
      /\ frozen'[c] = (t = "freeze")
      /\ frozen' \in [Plastic -> BOOLEAN]
  BY <1>0 DEF Doubt, CardControlTypeOK
<1>3. c \notin unsure' => /\ t = wanted[c] /\ flight[c][Opposite(t)] = 0
                          /\ wanted[c] \in asked[c]
  <2>1. wanted[c] \in Topic \cup {"none"} /\ flight[c][t] # 0
    BY <1>0, <1>1 DEF CardControlTypeOK
  <2>2. CASE c \in unsure
    BY <1>2, <2>2, OppositeIsOther DEF Settled, ControlInv, WantedWasAsked
  <2>3. CASE c \notin unsure
    BY <2>1, <2>3, OppositeIsOther DEF ControlInv, OneMindInFlight, Opposite, Topic
  <2> QED
    BY <2>2, <2>3
<1>4. CardControlTypeOK'
  BY <1>0, <1>1, <1>2 DEF CardControlTypeOK
<1>5. ListIsLast'
  BY DEF ControlInv, ListIsLast
<1>6. \A d \in Linked \ unsure' : Landed(d)'
  <2> SUFFICES ASSUME NEW d \in Linked \ unsure' PROVE Landed(d)'
    OBVIOUS
  <2>1. CASE d = c
    BY <1>2, <1>3, <2>1 DEF Landed
  <2>2. CASE d # c
    BY <1>1, <1>2, <2>2 DEF ControlInv, Landed
  <2> QED
    BY <2>1, <2>2
<1>7. \A d \in Plastic \ Linked : NeverLinked(d)'
  BY <1>2 DEF ControlInv, NeverLinked
<1>8. OneMindInFlight'
  <2> SUFFICES ASSUME NEW d \in Plastic \ unsure'
               PROVE  IF wanted[d] = "none"
                      THEN \A s \in Topic : s \notin asked[d] /\ flight'[d][s] = 0
                      ELSE /\ wanted[d] \in asked[d]
                           /\ flight'[d][Opposite(wanted[d])] = 0
    BY DEF OneMindInFlight
  <2>1. CASE d = c
    BY <1>1, <1>3, <2>1, OppositeIsOther
  <2>2. CASE d # c
    <3>1. wanted[d] \in Topic \cup {"none"}
      BY <1>0 DEF CardControlTypeOK
    <3> QED
      BY <1>1, <1>2, <2>2, <3>1, OppositeIsOther DEF ControlInv, OneMindInFlight
  <2> QED
    BY <2>1, <2>2
<1>9. WantedWasAsked'
  BY DEF ControlInv, WantedWasAsked
<1>10. UnlinkedWaits'
  BY <1>0, <1>1, <1>2 DEF ControlInv, UnlinkedWaits, CardControlTypeOK
<1> QED
  BY <1>4, <1>5, <1>6, <1>7, <1>8, <1>9, <1>10 DEF ControlInv

LEMMA HandleFailsStep ==
  ASSUME ControlInv, NEW c \in Plastic, NEW t \in Topic, HandleFreezeFails(c, t)
  PROVE  ControlInv'
<1> USE CardControlAssumption DEF HandleFreezeFails
<1>0. CardControlTypeOK
  BY DEF ControlInv
<1>1. /\ flight' \in [Plastic -> [Topic -> 0 .. MaxFlight]]
      /\ \A d \in Plastic, s \in Topic :
           d # c \/ s # t => flight'[d][s] = flight[d][s]
  BY <1>0, CountedFlight
<1>2. unsure' = unsure \cup {c}
  BY DEF Doubt
<1>3. CardControlTypeOK'
  BY <1>0, <1>1, <1>2 DEF CardControlTypeOK
<1>4. ListIsLast' /\ WantedWasAsked' /\ \A d \in Plastic \ Linked : NeverLinked(d)'
  BY DEF ControlInv, ListIsLast, WantedWasAsked, NeverLinked
<1>5. \A d \in Linked \ unsure' : Landed(d)'
  BY <1>1, <1>2 DEF ControlInv, Landed
<1>6. OneMindInFlight' /\ UnlinkedWaits'
  <2> SUFFICES ASSUME NEW d \in Plastic \ unsure'
      PROVE /\ IF wanted[d] = "none"
               THEN \A s \in Topic : s \notin asked[d] /\ flight'[d][s] = 0
               ELSE /\ wanted[d] \in asked[d]
                    /\ flight'[d][Opposite(wanted[d])] = 0
            /\ d \notin Linked /\ wanted[d] # "none" => flight'[d][wanted[d]] > 0
    BY DEF OneMindInFlight, UnlinkedWaits
  <2>1. wanted[d] \in Topic \cup {"none"} /\ d \in Plastic \ unsure /\ d # c
    BY <1>0, <1>2 DEF CardControlTypeOK
  <2> QED
    BY <1>1, <2>1, OppositeIsOther DEF ControlInv, OneMindInFlight, UnlinkedWaits
<1> QED
  BY <1>3, <1>4, <1>5, <1>6 DEF ControlInv

-----------------------------------------------------------------------------
(* The steps that leave the switches alone.                                *)

LEMMA QuietSwitches ==
  ASSUME ControlInv, UNCHANGED switches, CardControlTypeOK', ListIsLast'
  PROVE  ControlInv'
  BY DEF switches, ControlInv, Landed, NeverLinked, OneMindInFlight,
         WantedWasAsked, UnlinkedWaits

LEMMA ReadStep == ControlInv /\ ReadList => ControlInv'
<1> SUFFICES ASSUME ControlInv, ReadList PROVE ControlInv'
  OBVIOUS
<1> USE CardControlAssumption
<1>0. CardControlTypeOK
  BY DEF ControlInv
<1>1. /\ list'.cards = minted /\ list'.pc = "reading"
      /\ list'.blocked = {c \in minted : frozen[c]}
      /\ list'.moving = {c \in minted : c \in unsure \/ InFlight(c)}
      /\ minted' = minted /\ UNCHANGED switches
  BY DEF ReadList
<1>2. CardControlTypeOK'
  BY <1>0 DEF ReadList, switches, CardControlTypeOK
<1>3. ListIsLast'
  <2> SUFFICES ASSUME NEW c \in minted, c \notin unsure, ~ InFlight(c),
                      wanted[c] # "none"
               PROVE  frozen[c] <=> wanted[c] = "freeze"
    BY <1>1 DEF ListIsLast, switches
  <2>1. c \in Plastic /\ wanted[c] \in Topic
    BY <1>0 DEF CardControlTypeOK
  <2>2. \A t \in Topic : flight[c][t] = 0
    BY <1>0, <2>1 DEF InFlight, CardControlTypeOK
  <2>3. c \in Linked
    BY <2>1, <2>2 DEF ControlInv, UnlinkedWaits
  <2> QED
    BY <2>1, <2>2, <2>3 DEF ControlInv, Landed
<1> QED
  BY <1>1, <1>2, <1>3, QuietSwitches

LEMMA ListStep ==
  ASSUME ControlInv,
         \/ ShowList \/ ListFails \/ \E c \in Plastic : Mint(c)
         \/ UNCHANGED controlVars
  PROVE  ControlInv'
<1> USE CardControlAssumption
<1>0. CardControlTypeOK /\ ListIsLast
  BY DEF ControlInv
<1>1. CASE ShowList
  <2>1. /\ list'.cards = list.cards /\ list'.blocked = list.blocked
        /\ list'.moving = list.moving /\ list.cards \subseteq Linked
        /\ UNCHANGED switches
    BY <1>0, <1>1 DEF ShowList, CardControlTypeOK
  <2>2. CardControlTypeOK'
    BY <1>0, <1>1 DEF ShowList, switches, CardControlTypeOK
  <2>3. ListIsLast'
    BY <1>0, <2>1 DEF ListIsLast, switches
  <2> QED
    BY <2>1, <2>2, <2>3, QuietSwitches
<1>2. CASE ListFails
  <2>1. CardControlTypeOK' /\ ListIsLast' /\ UNCHANGED switches
    BY <1>0, <1>2 DEF ListFails, NoList, switches, CardControlTypeOK, ListIsLast
  <2> QED
    BY <2>1, QuietSwitches
<1>3. CASE \E c \in Plastic : Mint(c)
  <2>1. CardControlTypeOK' /\ ListIsLast' /\ UNCHANGED switches
    BY <1>0, <1>3 DEF Mint, switches, CardControlTypeOK, ListIsLast
  <2> QED
    BY <2>1, QuietSwitches
<1>4. CASE UNCHANGED controlVars
  <2>1. CardControlTypeOK' /\ ListIsLast' /\ UNCHANGED switches
    BY <1>0, <1>4 DEF controlVars, switches, CardControlTypeOK, ListIsLast
  <2> QED
    BY <2>1, QuietSwitches
<1> QED
  BY <1>1, <1>2, <1>3, <1>4

-----------------------------------------------------------------------------
\* A card ends as its last request left it, and a list shows it so, unless an
\* opposite event, a failure or a repetition is in between: for any cards.
THEOREM LastRequestDecides == CardControlSpec => []BlockIsLast
<1>1. ControlInv /\ [CardControlNext]_controlVars => ControlInv'
  <2> SUFFICES ASSUME ControlInv, [CardControlNext]_controlVars
               PROVE  ControlInv'
    OBVIOUS
  <2>1. CASE \E c \in Plastic : BlockCard(c) \/ UnlockCard(c)
    BY <2>1, RequestStep DEF BlockCard, UnlockCard, Topic
  <2>2. CASE \E c \in Plastic, t \in Topic :
               EventAgain(c, t) \/ HandleFreeze(c, t) \/ HandleFreezeFails(c, t)
    BY <2>2, AgainStep, HandleStep, HandleFailsStep
  <2>3. CASE ReadList
    BY <2>3, ReadStep
  <2>4. CASE \/ ShowList \/ ListFails \/ \E c \in Plastic : Mint(c)
             \/ UNCHANGED controlVars
    BY <2>4, ListStep
  <2> QED
    BY <2>1, <2>2, <2>3, <2>4 DEF CardControlNext
<1>2. ControlInv => BlockIsLast
  BY DEF ControlInv, BlockIsLast
<1> QED
  BY <1>1, <1>2, ControlStart, PTL DEF CardControlSpec

-----------------------------------------------------------------------------
(***************************************************************************)
(* The cardholder, for any customers and cardholders.                      *)
(***************************************************************************)

(***************************************************************************)
(* What the provider notifies of is verified; an id in a row is that of a  *)
(* cardholder of its user, and a flag in a row came with such an id.       *)
(***************************************************************************)
Told ==
  /\ \A h \in Holder : hook[h] # "none" => holder[h].state = "verified"
  /\ \A u \in Customer :
       /\ cardholderId[u] # NoHolder => holder[cardholderId[u]].customer = u
       /\ cardholderVerified[u] => cardholderId[u] # NoHolder

HolderInv == Told /\ VerifiedIsVerified

-----------------------------------------------------------------------------
LEMMA HolderInit == CardholdersInit => HolderInv
BY CardholdersAssumption
   DEF CardholdersInit, HolderInv, Told, VerifiedIsVerified, CardholdersTypeOK,
       MayHaveCards, NotRegistered

\* A step of the provider that takes no customer and no verdict away, and that
\* leaves the table alone, keeps the invariant if its notifications are true.
LEMMA ProviderKeeps ==
  ASSUME HolderInv, CardholdersTypeOK',
         UNCHANGED <<cardholderId, cardholderVerified, heard>>,
         \A h \in Holder : hook'[h] # "none" => holder'[h].state = "verified",
         \A h \in Holder, u \in Customer : holder[h].customer = u =>
            /\ holder'[h].customer = u
            /\ holder[h].state = "verified" => holder'[h] = holder[h]
  PROVE  HolderInv'
<1>1. \A u \in Customer : cardholderId[u] \in Holder \cup {NoHolder}
  BY DEF HolderInv, VerifiedIsVerified, CardholdersTypeOK
<1>2. Told'
  BY <1>1 DEF HolderInv, Told
<1>3. ASSUME NEW u \in Customer, cardholderVerified[u]
      PROVE  \E h \in Holder : holder'[h] = [state |-> "verified", customer |-> u]
  <2>1. PICK h \in Holder : holder[h] = [state |-> "verified", customer |-> u]
    BY <1>3 DEF HolderInv, VerifiedIsVerified
  <2>2. QED
    BY <2>1
<1>4. ASSUME NEW u \in Customer, MayHaveCards(u), cardholderId[u] \notin heard[u]
      PROVE  \E h \in Holder \ {cardholderId[u]} : holder'[h].customer = u
  <2>1. PICK h \in Holder \ {cardholderId[u]} : holder[h].customer = u
    BY <1>4 DEF HolderInv, VerifiedIsVerified
  <2>2. QED
    BY <2>1
<1>5. \A u \in Customer : MayHaveCards(u)' <=> MayHaveCards(u)
  BY DEF MayHaveCards
<1>6. VerifiedIsVerified'
  BY <1>3, <1>4, <1>5 DEF HolderInv, VerifiedIsVerified
<1>7. QED
  BY <1>2, <1>6 DEF HolderInv

LEMMA RegisterKeeps ==
  ASSUME HolderInv, NEW u \in Customer, NEW h \in Holder,
         NEW outcome \in {"pending", "consumed"}, Register(u, h, outcome)
  PROVE  HolderInv'
<1>1. CardholdersTypeOK'
  BY DEF HolderInv, VerifiedIsVerified, CardholdersTypeOK, Register
<1>2. \A g \in Holder :
        holder'[g] = IF g = h THEN [state |-> "registered", customer |-> u] ELSE holder[g]
  BY DEF Register, HolderInv, VerifiedIsVerified, CardholdersTypeOK
<1>3. holder[h] = [state |-> "none", customer |-> NoCustomer] /\ NoCustomer \notin Customer
  BY CardholdersAssumption DEF Register, NotRegistered
<1>4. \A g \in Holder : hook'[g] # "none" => holder'[g].state = "verified"
  BY <1>2, <1>3 DEF Register, HolderInv, Told
<1>5. QED
  BY <1>1, <1>2, <1>3, <1>4, ProviderKeeps DEF Register

LEMMA VerifyKeeps ==
  ASSUME HolderInv, NEW h \in Holder, Verify(h)
  PROVE  HolderInv'
<1>1. PICK s \in {"verified", "rejected"} :
        /\ holder' = [holder EXCEPT ![h].state = s]
        /\ hook' = IF s = "verified" THEN [hook EXCEPT ![h] = "pending"] ELSE hook
  BY DEF Verify
<1>2. holder[h] \in [state : {"registered", "verified", "rejected"}, customer : Customer]
  BY DEF Verify, HolderInv, VerifiedIsVerified, CardholdersTypeOK, NotRegistered
<1>3. \A g \in Holder :
        holder'[g] = IF g = h THEN [state |-> s, customer |-> holder[h].customer]
                     ELSE holder[g]
  BY <1>1, <1>2 DEF HolderInv, VerifiedIsVerified, CardholdersTypeOK
<1>4. CardholdersTypeOK'
  <2>1. holder' \in [Holder -> {NotRegistered} \cup
                  [state : {"registered", "verified", "rejected"}, customer : Customer]]
    BY <1>1, <1>2, <1>3 DEF HolderInv, VerifiedIsVerified, CardholdersTypeOK
  <2>2. hook' \in [Holder -> {"none", "pending", "answered"}]
    BY <1>1 DEF HolderInv, VerifiedIsVerified, CardholdersTypeOK
  <2>3. QED
    BY <2>1, <2>2 DEF HolderInv, VerifiedIsVerified, CardholdersTypeOK, Verify
<1>5. holder[h].state = "registered"
  BY DEF Verify
<1>6. \A g \in Holder : hook'[g] # "none" => holder'[g].state = "verified"
  BY <1>1, <1>3, <1>5 DEF HolderInv, VerifiedIsVerified, CardholdersTypeOK, Told
<1>7. QED
  BY <1>3, <1>4, <1>5, <1>6, ProviderKeeps DEF Verify

LEMMA StoreIdKeeps ==
  ASSUME HolderInv, NEW u \in Customer, NEW h \in Holder, StoreId(u, h)
  PROVE  HolderInv'
<1>1. CardholdersTypeOK'
  BY DEF HolderInv, VerifiedIsVerified, CardholdersTypeOK, StoreId
<1>2. /\ cardholderId'[u] = h /\ heard'[u] = heard[u] \ {h}
      /\ \A v \in Customer \ {u} : cardholderId'[v] = cardholderId[v] /\ heard'[v] = heard[v]
      /\ UNCHANGED <<holder, hook, cardholderVerified>>
      /\ holder[h].customer = u /\ cardholderId[u] # h
  BY DEF HolderInv, VerifiedIsVerified, CardholdersTypeOK, StoreId
<1>3. \A v \in Customer \ {u} : MayHaveCards(v)' <=> MayHaveCards(v)
  BY <1>2 DEF MayHaveCards
<1>4. cardholderVerified[u] => /\ cardholderId[u] \in Holder \ {h}
                               /\ holder[cardholderId[u]].customer = u
  BY <1>2 DEF HolderInv, VerifiedIsVerified, CardholdersTypeOK, Told
<1>5. Told'
  BY <1>2, CardholdersAssumption DEF HolderInv, Told
<1>6. ASSUME NEW v \in Customer, MayHaveCards(v)', cardholderId'[v] \notin heard'[v]
      PROVE  \E g \in Holder \ {cardholderId'[v]} : holder'[g].customer = v
  <2>1. CASE v = u
    BY <1>2, <1>4, <1>6, <2>1 DEF MayHaveCards
  <2>2. CASE v # u
    BY <1>2, <1>3, <1>6, <2>2 DEF HolderInv, VerifiedIsVerified
  <2>3. QED
    BY <2>1, <2>2
<1>7. ASSUME NEW v \in Customer, cardholderId'[v] \in heard'[v]
      PROVE  MayHaveCards(v)'
  BY <1>2, <1>3, <1>7 DEF HolderInv, VerifiedIsVerified
<1>8. \A v \in Customer : cardholderVerified'[v] =>
        \E g \in Holder : holder'[g] = [state |-> "verified", customer |-> v]
  BY <1>2 DEF HolderInv, VerifiedIsVerified
<1>9. VerifiedIsVerified'
  BY <1>1, <1>6, <1>7, <1>8 DEF VerifiedIsVerified
<1>10. QED
  BY <1>5, <1>9 DEF HolderInv

LEMMA VerifiedKeeps ==
  ASSUME HolderInv, NEW h \in Holder, NEW answer \in {"pending", "answered"},
         Verified(h, answer)
  PROVE  HolderInv'
<1>1. CardholdersTypeOK'
  BY DEF HolderInv, VerifiedIsVerified, CardholdersTypeOK, Verified
<1>2. /\ \A u \in Customer :
           /\ cardholderVerified'[u] <=> (cardholderVerified[u] \/ cardholderId[u] = h)
           /\ heard'[u] = IF cardholderId[u] = h THEN heard[u] \cup {h} ELSE heard[u]
      /\ UNCHANGED <<holder, cardholderId>>
  BY DEF Verified, RowsWith
<1>3. holder[h].state = "verified" /\ NoHolder # h
  BY CardholdersAssumption DEF Verified, HolderInv, Told
<1>4. Told'
  BY <1>2, <1>3 DEF HolderInv, VerifiedIsVerified, CardholdersTypeOK, Verified, Told
<1>5. ASSUME NEW u \in Customer
      PROVE  /\ cardholderVerified'[u] =>
                  \E g \in Holder : holder'[g] = [state |-> "verified", customer |-> u]
             /\ cardholderId'[u] \in heard'[u] => MayHaveCards(u)'
             /\ MayHaveCards(u)' /\ cardholderId'[u] \notin heard'[u] =>
                  \E g \in Holder \ {cardholderId'[u]} : holder'[g].customer = u
  <2>1. CASE cardholderId[u] = h
    <3>1. holder[h].customer = u
      BY <1>3, <2>1 DEF HolderInv, Told
    <3>2. holder[h] = [state |-> "verified", customer |-> u]
      BY <1>3, <3>1 DEF HolderInv, VerifiedIsVerified, CardholdersTypeOK, NotRegistered
    <3>3. QED
      BY <1>2, <1>3, <2>1, <3>2 DEF MayHaveCards
  <2>2. CASE cardholderId[u] # h
    <3>1. MayHaveCards(u)' <=> MayHaveCards(u)
      BY <1>2, <2>2 DEF MayHaveCards
    <3>2. QED
      BY <1>2, <2>2, <3>1 DEF HolderInv, VerifiedIsVerified
  <2>3. QED
    BY <2>1, <2>2
<1>6. VerifiedIsVerified'
  BY <1>1, <1>5 DEF VerifiedIsVerified
<1>7. QED
  BY <1>4, <1>6 DEF HolderInv

-----------------------------------------------------------------------------
LEMMA HolderStep == HolderInv /\ [CardholdersNext]_cardholderVars => HolderInv'
<1> SUFFICES ASSUME HolderInv, [CardholdersNext]_cardholderVars
             PROVE  HolderInv'
  OBVIOUS
<1>1. ASSUME NEW u \in Customer, RegisterFails(u) \/ CompleteAgain(u)
      PROVE  HolderInv'
  <2>1. UNCHANGED <<holder, hook, cardholderId, cardholderVerified, heard>>
    BY <1>1 DEF RegisterFails, CompleteAgain
  <2>2. CardholdersTypeOK'
    BY <1>1, <2>1 DEF RegisterFails, CompleteAgain, HolderInv, VerifiedIsVerified,
                      CardholdersTypeOK
  <2>3. QED
    BY <2>1, <2>2, ProviderKeeps DEF HolderInv, Told
<1>2. ASSUME NEW u \in Customer, NEW h \in Holder, StoreId(u, h)
      PROVE  HolderInv'
  BY <1>2, StoreIdKeeps
<1>3. ASSUME NEW u \in Customer, NEW h \in Holder, NEW outcome \in {"pending", "consumed"},
             Register(u, h, outcome)
      PROVE  HolderInv'
  BY <1>3, RegisterKeeps
<1>4. ASSUME NEW h \in Holder, Verify(h)
      PROVE  HolderInv'
  BY <1>4, VerifyKeeps
<1>5. ASSUME NEW h \in Holder, NEW answer \in {"pending", "answered"}, Verified(h, answer)
      PROVE  HolderInv'
  BY <1>5, VerifiedKeeps
<1>6. ASSUME UNCHANGED cardholderVars
      PROVE  HolderInv'
  BY <1>6 DEF cardholderVars, HolderInv, Told, VerifiedIsVerified, CardholdersTypeOK,
              MayHaveCards
<1>7. QED
  BY <1>1, <1>2, <1>3, <1>4, <1>5, <1>6 DEF CardholdersNext

(***************************************************************************)
(* Who may have cards is a cardholder the provider verified, each          *)
(* verification that comes after its id was stored counts, and only an id  *)
(* that replaced another passes unheard of: for every number of users and  *)
(* of registrations.                                                       *)
(***************************************************************************)
THEOREM HoldersAreVerified == CardholdersSpec => []VerifiedIsVerified
<1>1. HolderInv => VerifiedIsVerified
  BY DEF HolderInv
<1>2. QED
  BY <1>1, HolderInit, HolderStep, PTL DEF CardholdersSpec

-----------------------------------------------------------------------------
(***************************************************************************)
(* The account, for any users, requests, tokens and PINs.                  *)
(***************************************************************************)

JobType == [pc : {"free", "setting", "signing", "closing", "reasons"},
            client : Client \cup {NoClient}, pin : Pin \cup {NoPin},
            status : Statuses \cup {"none"}]

IsSetting(p, u) == job[p].pc = "setting" /\ job[p].client = u

(***************************************************************************)
(* A request that is under way knows its user, and one that sets a PIN     *)
(* knows the PIN.                                                          *)
(***************************************************************************)
JobsKnow ==
  \A p \in Job :
    /\ job[p].pc # "free" => job[p].client \in Client
    /\ job[p].pc = "setting" => job[p].pin \in Pin

(***************************************************************************)
(* The argument: as long as no two settings of a user's PIN overlapped, a  *)
(* setting is the only one, and the user has no PIN yet and was told of    *)
(* none.                                                                   *)
(***************************************************************************)
OneSetting ==
  \A u \in Client \ crossed :
    /\ told[u] \subseteq {pin[u]}
    /\ \A p \in Job : IsSetting(p, u) =>
         /\ pin[u] = NoPin
         /\ \A q \in Job : IsSetting(q, u) => q = p

PinInv == AccountsTypeOK /\ JobsKnow /\ OneSetting

-----------------------------------------------------------------------------
LEMMA PinInit == AccountsInit => PinInv
BY DEF AccountsInit, PinInv, AccountsTypeOK, JobsKnow, OneSetting, IsSetting, NoJob,
       NoJwt, Statuses

\* No step of a request that sets no PIN disturbs the invariant.
LEMMA OtherJob ==
  ASSUME PinInv, NEW p \in Job, NEW j \in JobType,
         job' = [job EXCEPT ![p] = j], j.pc # "setting",
         j.pc # "free" => j.client \in Client,
         status' \in [Client -> Statuses],
         jwt' \in [Jwt -> [client : Client \cup {NoClient}, status : Statuses \cup {"none"}]],
         UNCHANGED <<pin, told, crossed>>
  PROVE  PinInv'
<1>1. AccountsTypeOK'
  BY DEF PinInv, AccountsTypeOK, JobType
<1>2. \A q \in Job : job'[q] = IF q = p THEN j ELSE job[q]
  BY DEF PinInv, AccountsTypeOK
<1>3. JobsKnow'
  BY <1>2 DEF PinInv, JobsKnow
<1>4. \A q \in Job, u \in Client : IsSetting(q, u)' => IsSetting(q, u)
  BY <1>2 DEF IsSetting
<1>5. OneSetting'
  BY <1>4 DEF PinInv, OneSetting
<1>6. QED
  BY <1>1, <1>3, <1>5 DEF PinInv

LEMMA SetPinKeeps ==
  ASSUME PinInv, NEW p \in Job, NEW u \in Client, NEW n \in Pin, SetPin(p, u, n)
  PROVE  PinInv'
<1> DEFINE j == [pc |-> "setting", client |-> u, pin |-> n, status |-> status[u]]
<1>1. j \in JobType
  BY DEF PinInv, AccountsTypeOK, JobType
<1>2. job' = [job EXCEPT ![p] = j] /\ UNCHANGED <<status, pin, jwt, told>>
  BY DEF SetPin
<1>3. crossed' = (IF Setting(u) THEN crossed \cup {u} ELSE crossed)
  BY DEF SetPin, Crossing
<1>4. AccountsTypeOK'
  BY <1>1, <1>2, <1>3 DEF PinInv, AccountsTypeOK, JobType
<1>5. \A q \in Job : job'[q] = IF q = p THEN j ELSE job[q]
  BY <1>2 DEF PinInv, AccountsTypeOK
<1>6. JobsKnow'
  BY <1>5 DEF PinInv, JobsKnow
<1>7. ASSUME NEW v \in Client, v \notin crossed'
      PROVE  /\ told'[v] \subseteq {pin'[v]}
             /\ \A q \in Job : IsSetting(q, v)' =>
                  /\ pin'[v] = NoPin
                  /\ \A r \in Job : IsSetting(r, v)' => r = q
  <2>1. v \notin crossed
    BY <1>3, <1>7
  <2>2. CASE v = u
    <3>1. \A q \in Job : ~ IsSetting(q, u)
      BY <1>3, <1>7, <2>2 DEF Setting, IsSetting
    <3>2. \A q \in Job : IsSetting(q, u)' => q = p
      BY <1>5, <3>1 DEF IsSetting
    <3>3. QED
      BY <1>2, <2>1, <2>2, <3>2 DEF SetPin, PinInv, OneSetting
  <2>3. CASE v # u
    <3>1. \A q \in Job : IsSetting(q, v)' => IsSetting(q, v)
      BY <1>5, <2>3 DEF IsSetting
    <3>2. QED
      BY <1>2, <2>1, <3>1 DEF PinInv, OneSetting
  <2>4. QED
    BY <2>2, <2>3
<1>8. OneSetting'
  BY <1>7 DEF OneSetting
<1>9. QED
  BY <1>4, <1>6, <1>8 DEF PinInv

LEMMA SavePinKeeps ==
  ASSUME PinInv, NEW p \in Job, SavePin(p)
  PROVE  PinInv'
<1>1. PICK u \in Client : u = job[p].client
  BY DEF PinInv, JobsKnow, SavePin
<1>2. PICK n \in Pin : n = job[p].pin
  BY DEF PinInv, JobsKnow, SavePin
<1>3. /\ IsSetting(p, u)
      /\ pin' = [pin EXCEPT ![u] = n]
      /\ told' = [told EXCEPT ![u] = @ \cup {n}]
      /\ job' = [job EXCEPT ![p] = NoJob]
      /\ UNCHANGED <<status, jwt, crossed>>
  BY <1>1, <1>2 DEF SavePin, Ends, IsSetting
<1>4. AccountsTypeOK'
  BY <1>3 DEF PinInv, AccountsTypeOK, NoJob
<1>5. \A q \in Job : job'[q] = IF q = p THEN NoJob ELSE job[q]
  BY <1>3 DEF PinInv, AccountsTypeOK
<1>6. JobsKnow'
  BY <1>5 DEF PinInv, JobsKnow, NoJob
<1>7. ASSUME NEW v \in Client, v \notin crossed'
      PROVE  /\ told'[v] \subseteq {pin'[v]}
             /\ \A q \in Job : IsSetting(q, v)' =>
                  /\ pin'[v] = NoPin
                  /\ \A r \in Job : IsSetting(r, v)' => r = q
  <2>1. v \notin crossed
    BY <1>3, <1>7
  <2>2. \A q \in Job : IsSetting(q, v)' => IsSetting(q, v) /\ q # p
    BY <1>5 DEF IsSetting, NoJob
  <2>3. CASE v = u
    <3>1. told[u] = {}
      BY <1>3, <2>1, <2>3, AccountsAssumption DEF PinInv, OneSetting, AccountsTypeOK
    <3>2. told'[u] = {n} /\ pin'[u] = n
      BY <1>3, <3>1 DEF PinInv, AccountsTypeOK
    <3>3. \A q \in Job : ~ IsSetting(q, u)'
      BY <1>3, <2>1, <2>2, <2>3 DEF PinInv, OneSetting
    <3>4. QED
      BY <2>3, <3>2, <3>3
  <2>4. CASE v # u
    <3>1. told'[v] = told[v] /\ pin'[v] = pin[v]
      BY <1>3, <2>4 DEF PinInv, AccountsTypeOK
    <3>2. QED
      BY <2>1, <2>2, <3>1 DEF PinInv, OneSetting
  <2>5. QED
    BY <2>3, <2>4
<1>8. OneSetting'
  BY <1>7 DEF OneSetting
<1>9. QED
  BY <1>4, <1>6, <1>8 DEF PinInv

LEMMA ResetPinKeeps ==
  ASSUME PinInv, NEW u \in Client, NEW n \in Pin, ResetPin(u, n)
  PROVE  PinInv'
<1>1. crossed' = (IF Setting(u) THEN crossed \cup {u} ELSE crossed)
  BY DEF ResetPin, Crossing
<1>2. AccountsTypeOK' /\ JobsKnow'
  BY <1>1 DEF ResetPin, PinInv, AccountsTypeOK, JobsKnow
<1>3. \A v \in Client : /\ pin'[v] = IF v = u THEN n ELSE pin[v]
                        /\ told'[v] = IF v = u THEN {n} ELSE told[v]
  BY DEF ResetPin, PinInv, AccountsTypeOK
<1>4. \A q \in Job, v \in Client : IsSetting(q, v)' => IsSetting(q, v)
  BY DEF ResetPin, IsSetting
<1>5. u \notin crossed' => \A q \in Job : ~ IsSetting(q, u)
  BY <1>1 DEF Setting, IsSetting
<1>6. ASSUME NEW v \in Client, v \notin crossed'
      PROVE  /\ told'[v] \subseteq {pin'[v]}
             /\ \A q \in Job : IsSetting(q, v)' =>
                  /\ pin'[v] = NoPin
                  /\ \A r \in Job : IsSetting(r, v)' => r = q
  <2>1. v \notin crossed
    BY <1>1, <1>6
  <2>2. CASE v = u
    BY <1>3, <1>4, <1>5, <1>6, <2>2
  <2>3. CASE v # u
    BY <1>3, <1>4, <2>1, <2>3 DEF PinInv, OneSetting
  <2>4. QED
    BY <2>2, <2>3
<1>7. OneSetting'
  BY <1>6 DEF OneSetting
<1>8. QED
  BY <1>2, <1>7 DEF PinInv

-----------------------------------------------------------------------------
LEMMA NoJobType == NoJob \in JobType /\ NoJob.pc = "free"
BY DEF NoJob, JobType

LEMMA BegunType ==
  ASSUME PinInv, NEW p \in Job, NEW u \in Client, NEW pc \in {"signing", "closing"},
         Begins(p, pc, u), UNCHANGED <<status, pin, jwt, told, crossed>>
  PROVE  PinInv'
<1>1. PICK j : j = [NoJob EXCEPT !.pc = pc, !.client = u, !.status = status[u]]
  OBVIOUS
<1>2. j \in JobType /\ j.pc = pc /\ j.client = u
  BY <1>1 DEF NoJob, JobType, PinInv, AccountsTypeOK
<1>3. job' = [job EXCEPT ![p] = j]
  BY <1>1 DEF Begins
<1>4. QED
  BY <1>2, <1>3, OtherJob DEF PinInv, AccountsTypeOK

LEMMA PinStep == PinInv /\ [AccountsNext]_accountVars => PinInv'
<1> SUFFICES ASSUME PinInv, [AccountsNext]_accountVars
             PROVE  PinInv'
  OBVIOUS
<1>1. ASSUME NEW p \in Job, NEW u \in Client, NEW n \in Pin,
             SetPin(p, u, n) \/ VerifyPin(p, u, n)
      PROVE  PinInv'
  BY <1>1, SetPinKeeps, BegunType DEF VerifyPin
<1>2. ASSUME NEW p \in Job, NEW u \in Client, Refresh(p, u) \/ CloseAccount(p, u)
      PROVE  PinInv'
  BY <1>2, BegunType DEF Refresh, CloseAccount
<1>3. ASSUME NEW p \in Job, SavePin(p)
      PROVE  PinInv'
  BY <1>3, SavePinKeeps
<1>4. ASSUME NEW p \in Job, CloseStatus(p)
      PROVE  PinInv'
  <2>1. PICK j : j = [job[p] EXCEPT !.pc = "reasons"]
    OBVIOUS
  <2>2. job[p] \in JobType /\ job[p].client \in Client
    BY <1>4 DEF CloseStatus, PinInv, AccountsTypeOK, JobType, JobsKnow
  <2>3. j \in JobType /\ j.pc = "reasons" /\ j.client \in Client
    BY <2>1, <2>2 DEF JobType
  <2>4. job' = [job EXCEPT ![p] = j]
    BY <1>4, <2>1 DEF CloseStatus, PinInv, AccountsTypeOK
  <2>5. status' \in [Client -> Statuses]
    BY <1>4 DEF CloseStatus, PinInv, AccountsTypeOK, Statuses
  <2>6. QED
    BY <1>4, <2>3, <2>4, <2>5, OtherJob DEF CloseStatus, PinInv, AccountsTypeOK
<1>5. ASSUME NEW p \in Job, JobEnds(p)
      PROVE  PinInv'
  BY <1>5, NoJobType, OtherJob DEF JobEnds, Ends, PinInv, AccountsTypeOK
<1>6. ASSUME NEW p \in Job, NEW j \in Jwt, CreateAccessToken(p, j)
      PROVE  PinInv'
  <2>1. job[p] \in JobType
    BY DEF PinInv, AccountsTypeOK, JobType
  <2>2. jwt' \in [Jwt -> [client : Client \cup {NoClient}, status : Statuses \cup {"none"}]]
    BY <1>6, <2>1 DEF CreateAccessToken, PinInv, AccountsTypeOK, JobType
  <2>3. QED
    BY <1>6, <2>2, NoJobType, OtherJob DEF CreateAccessToken, Ends, PinInv, AccountsTypeOK
<1>7. ASSUME NEW u \in Client, NEW n \in Pin, ResetPin(u, n)
      PROVE  PinInv'
  BY <1>7, ResetPinKeeps
<1>8. ASSUME NEW j \in Jwt, Expire(j)
      PROVE  PinInv'
  <2>1. AccountsTypeOK'
    BY <1>8 DEF Expire, PinInv, AccountsTypeOK, NoJwt
  <2>2. JobsKnow' /\ OneSetting'
    BY <1>8 DEF Expire, PinInv, JobsKnow, OneSetting, IsSetting
  <2>3. QED
    BY <2>1, <2>2 DEF PinInv
<1>9. ASSUME UNCHANGED accountVars
      PROVE  PinInv'
  BY <1>9 DEF accountVars, PinInv, AccountsTypeOK, JobsKnow, OneSetting, IsSetting
<1>10. QED
  BY <1>1, <1>2, <1>3, <1>4, <1>5, <1>6, <1>7, <1>8, <1>9 DEF AccountsNext

(***************************************************************************)
(* Who was told that a PIN is set has that PIN, unless a second setting or *)
(* a reset came between the check of setPinCode and its save: for every    *)
(* number of users, requests, tokens and PINs.                             *)
(***************************************************************************)
THEOREM PinsKept == AccountsSpec => []PinIsKept
<1>1. PinInv => PinIsKept
  BY DEF PinInv, PinIsKept, OneSetting
<1>2. QED
  BY <1>1, PinInit, PinStep, PTL DEF AccountsSpec

-----------------------------------------------------------------------------
(***************************************************************************)
(* Closing.  A user is out when the account is closed and neither a token  *)
(* nor a request that signs one says otherwise.                            *)
(***************************************************************************)
Lets(p, u) == /\ job[p].pc = "signing" /\ job[p].client = u
              /\ job[p].status = "COMPLETED"

Out(u) == /\ status[u] = "CLOSED"
          /\ \A p \in Job : ~ Lets(p, u)
          /\ ~ Passes(u)

\* A request begins, or a step leaves the tokens alone.
LEMMA OutStays ==
  ASSUME AccountsTypeOK, NEW u \in Client, Out(u), status'[u] = "CLOSED",
         UNCHANGED jwt,
         \A q \in Job : Lets(q, u)' => Lets(q, u)
  PROVE  Out(u)'
BY DEF Out, Passes

LEMMA BeginsClosed ==
  ASSUME AccountsTypeOK, NEW u \in Client, Out(u),
         NEW p \in Job, NEW pc \in {"setting", "signing", "closing", "reasons"},
         NEW v \in Client,
         \/ Begins(p, pc, v)
         \/ \E n \in Pin : /\ pc = "setting"
                           /\ job' = [job EXCEPT ![p] =
                                        [pc |-> pc, client |-> v, pin |-> n,
                                         status |-> status[v]]]
  PROVE  \A q \in Job : Lets(q, u)' => Lets(q, u)
<1>1. PICK j : j.client = v /\ j.status = status[v] /\ job' = [job EXCEPT ![p] = j]
  <2>1. CASE Begins(p, pc, v)
    <3>1. PICK j : j = [NoJob EXCEPT !.pc = pc, !.client = v, !.status = status[v]]
      OBVIOUS
    <3>2. j.client = v /\ j.status = status[v]
      BY <3>1 DEF NoJob
    <3>3. job' = [job EXCEPT ![p] = j]
      BY <2>1, <3>1 DEF Begins
    <3>4. QED BY <3>2, <3>3
  <2>2. ASSUME NEW n \in Pin,
               job' = [job EXCEPT ![p] = [pc |-> pc, client |-> v, pin |-> n,
                                          status |-> status[v]]]
        PROVE  \E j : j.client = v /\ j.status = status[v]
                      /\ job' = [job EXCEPT ![p] = j]
    BY <2>2
  <2>3. QED BY <2>1, <2>2
<1>2. /\ \A q \in Job : q # p => job'[q] = job[q]
      /\ job'[p].client = v /\ job'[p].status = status[v]
  BY <1>1 DEF AccountsTypeOK
<1>3. QED BY <1>2 DEF Lets, Out

LEMMA OutStep ==
  ASSUME NEW u \in Client
  PROVE  AccountsTypeOK /\ Out(u) /\ [AccountsNext]_accountVars => Out(u)'
<1> SUFFICES ASSUME AccountsTypeOK, Out(u), [AccountsNext]_accountVars
             PROVE  Out(u)'
  OBVIOUS
<1>0. status[u] = "CLOSED"
  BY DEF Out
<1>1. ASSUME NEW p \in Job, NEW v \in Client,
             \/ \E n \in Pin : SetPin(p, v, n) \/ VerifyPin(p, v, n)
             \/ Refresh(p, v) \/ CloseAccount(p, v)
      PROVE  Out(u)'
  <2>1. UNCHANGED <<status, jwt>>
    BY <1>1 DEF SetPin, VerifyPin, Refresh, CloseAccount
  <2>2. PICK pc \in {"setting", "signing", "closing", "reasons"} :
          \/ Begins(p, pc, v)
          \/ \E n \in Pin : /\ pc = "setting"
                            /\ job' = [job EXCEPT ![p] =
                                         [pc |-> pc, client |-> v, pin |-> n,
                                          status |-> status[v]]]
    BY <1>1 DEF SetPin, VerifyPin, Refresh, CloseAccount
  <2>3. \A q \in Job : Lets(q, u)' => Lets(q, u)
    BY <2>2, BeginsClosed
  <2>4. QED BY <1>0, <2>1, <2>3, OutStays
<1>2. ASSUME NEW p \in Job, SavePin(p) \/ JobEnds(p) PROVE Out(u)'
  <2>1. UNCHANGED <<status, jwt>> /\ job' = [job EXCEPT ![p] = NoJob]
    BY <1>2 DEF SavePin, JobEnds, Ends
  <2>2. \A q \in Job : Lets(q, u)' => Lets(q, u)
    BY <2>1 DEF Lets, NoJob, AccountsTypeOK
  <2>3. QED BY <1>0, <2>1, <2>2, OutStays
<1>3. ASSUME NEW p \in Job, CloseStatus(p) PROVE Out(u)'
  <2>1. /\ status' = [status EXCEPT ![job[p].client] = "CLOSED"]
        /\ job' = [job EXCEPT ![p].pc = "reasons"] /\ UNCHANGED jwt
    BY <1>3 DEF CloseStatus
  <2>2. status'[u] = "CLOSED"
    BY <1>0, <2>1 DEF AccountsTypeOK
  <2>3. \A q \in Job : Lets(q, u)' => Lets(q, u)
    <3>1. job'[p].pc = "reasons"
      BY <2>1 DEF AccountsTypeOK
    <3>2. \A q \in Job : q # p => job'[q] = job[q]
      BY <2>1 DEF AccountsTypeOK
    <3>3. QED BY <3>1, <3>2 DEF Lets
  <2>4. QED BY <2>1, <2>2, <2>3, OutStays
<1>4. ASSUME NEW p \in Job, NEW j \in Jwt, CreateAccessToken(p, j)
      PROVE  Out(u)'
  <2>1. /\ job' = [job EXCEPT ![p] = NoJob] /\ UNCHANGED status
        /\ job[p].pc = "signing"
        /\ jwt' = [jwt EXCEPT ![j] =
                     [client |-> job[p].client, status |-> job[p].status]]
    BY <1>4 DEF CreateAccessToken, Ends
  <2>2. \A q \in Job : ~ Lets(q, u)'
    BY <2>1 DEF Lets, NoJob, AccountsTypeOK, Out
  <2>3. jwt'[j] # [client |-> u, status |-> "COMPLETED"]
    BY <2>1 DEF Out, Lets, AccountsTypeOK
  <2>4. \A i \in Jwt : i # j => jwt'[i] = jwt[i]
    BY <2>1 DEF AccountsTypeOK
  <2>5. ~ Passes(u)'
    BY <2>3, <2>4 DEF Out, Passes
  <2>6. QED BY <1>0, <2>1, <2>2, <2>5 DEF Out
<1>5. ASSUME NEW v \in Client, NEW n \in Pin, ResetPin(v, n) PROVE Out(u)'
  BY <1>5 DEF ResetPin, Out, Lets, Passes
<1>6. ASSUME NEW j \in Jwt, Expire(j) PROVE Out(u)'
  <2>1. UNCHANGED <<status, job>>
    BY <1>6 DEF Expire
  <2>2. \A i \in Jwt : jwt'[i] = jwt[i] \/ jwt'[i].status = "none"
    BY <1>6 DEF Expire, AccountsTypeOK, NoJwt
  <2>3. ~ Passes(u)'
    BY <2>2 DEF Out, Passes
  <2>4. QED BY <2>1, <2>3 DEF Out, Lets
<1>7. CASE UNCHANGED accountVars
  BY <1>7 DEF accountVars, Out, Lets, Passes
<1>8. QED
  BY <1>1, <1>2, <1>3, <1>4, <1>5, <1>6, <1>7 DEF AccountsNext

(***************************************************************************)
(* A closed account stays out: once the last token signed from a row read  *)
(* before the close has expired, none passes the guard again, for any      *)
(* number of requests, refreshes and PINs.  That this moment comes is the  *)
(* part of ClosedStaysOut that TLC checks.                                 *)
(***************************************************************************)
THEOREM ClosedForGood ==
  ASSUME NEW u \in Client
  PROVE  AccountsSpec => [](Out(u) => [](status[u] = "CLOSED" /\ ~ Passes(u)))
<1>1. AccountsSpec => []AccountsTypeOK
  BY PinInit, PinStep, PTL DEF AccountsSpec, PinInv
<1>2. Out(u) => status[u] = "CLOSED" /\ ~ Passes(u)
  BY DEF Out
<1>3. QED
  BY <1>1, <1>2, OutStep, PTL DEF AccountsSpec

=============================================================================
