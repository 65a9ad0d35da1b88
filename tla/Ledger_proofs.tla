---------------------------- MODULE Ledger_proofs ----------------------------
(***************************************************************************)
(* Proofs about Ledger for every set of wallets, requests and handlers,    *)
(* every fee and every hazard of the environment.                          *)
(***************************************************************************)
EXTENDS Ledger, TLAPS

USE LedgerAssumption DEF LedgerAssumption

(* Updating the status of some rows yields rows (the repository's update). *)
LEMMA SetStatusType ==
  ASSUME transaction \subseteq Row, NEW ref, NEW s \in Status
  PROVE  SetStatus(ref, s) \subseteq Row
<1>1. ASSUME NEW t \in transaction
      PROVE  [t EXCEPT !.status = s] \in Row
  BY <1>1 DEF Row
<1>2. QED BY <1>1 DEF SetStatus

(* Every row SetStatus leaves comes from a row that is equal up to status. *)
LEMMA SetStatusRow ==
  ASSUME transaction \subseteq Row, NEW ref, NEW s \in Status,
         NEW u \in SetStatus(ref, s)
  PROVE  \E t \in transaction :
           /\ u.id = t.id /\ u.wallet = t.wallet /\ u.type = t.type
           /\ u.affectedAmount = t.affectedAmount /\ u.senderId = t.senderId
           /\ u = IF t.id = ref THEN [t EXCEPT !.status = s] ELSE t
           /\ u.status = IF t.id = ref THEN s ELSE t.status
<1>1. PICK t \in transaction :
             u = IF t.id = ref THEN [t EXCEPT !.status = s] ELSE t
  BY DEF SetStatus
<1>2. t \in Row OBVIOUS
<1>3. /\ [t EXCEPT !.status = s].status = s
      /\ [t EXCEPT !.status = s].id = t.id
      /\ [t EXCEPT !.status = s].wallet = t.wallet
      /\ [t EXCEPT !.status = s].type = t.type
      /\ [t EXCEPT !.status = s].affectedAmount = t.affectedAmount
      /\ [t EXCEPT !.status = s].senderId = t.senderId
  BY <1>2 DEF Row
<1>4. QED BY <1>1, <1>3

(* A request past "idle" carries the wallets and the amount it was sent with. *)
LEMMA BegunReq ==
  ASSUME TypeOK, NEW r \in Req, req[r].pc # "idle"
  PROVE  req[r] \in Begun
BY DEF TypeOK, Idle

(* Its amount is a number. *)
LEMMA AmountIsInt ==
  ASSUME NEW r \in Req, req[r] \in Begun
  PROVE  req[r].amount \in Int
<1>1. req[r].amount \in Amount BY DEF Begun
<1>2. Amount \subseteq Int BY LedgerAssumption
<1>3. QED BY <1>1, <1>2

(* A handler that is not free carries the notice it took. *)
LEMMA BusyHandler ==
  ASSUME TypeOK, NEW h \in Handler, handler[h].pc # "free"
  PROVE  handler[h] \in Busy
BY DEF TypeOK, Free

(* The row a provider sends into the ledger is one: SaveRow, TransferInsert. *)
LEMMA NewRowType ==
  ASSUME TypeOK, NEW r \in Req, req[r] \in Begun, NEW w \in Wallet,
         NEW a \in Int, NEW s \in Status
  PROVE  NewRow(r, w, a, s) \in Row
BY DEF NewRow, Row, Begun

(* The two rows of a transfer: they differ in who sent them. *)
LEMMA TransferRowTypes ==
  ASSUME TypeOK, NEW r \in Req, req[r] \in Begun
  PROVE  /\ PaidRow(r) \in Row /\ ReceivedRow(r) \in Row
         /\ PaidRow(r).id = r /\ ReceivedRow(r).id = r
         /\ PaidRow(r).type = req[r].kind /\ ReceivedRow(r).type = req[r].kind
         /\ PaidRow(r).status = "PERFORMED" /\ ReceivedRow(r).status = "PERFORMED"
         /\ PaidRow(r).wallet = req[r].wallet
         /\ ReceivedRow(r).wallet = req[r].to
         /\ PaidRow(r).senderId = Null
         /\ ReceivedRow(r).senderId = req[r].wallet
         /\ PaidRow(r).affectedAmount = - req[r].amount
         /\ ReceivedRow(r).affectedAmount = req[r].amount - Fee
         /\ PaidRow(r) # ReceivedRow(r)
<1>1. /\ req[r].wallet \in Wallet /\ req[r].to \in Wallet
      /\ req[r].kind \in Kind
  BY DEF Begun
<1>2. - req[r].amount \in Int /\ req[r].amount - Fee \in Int
  BY AmountIsInt, LedgerAssumption
<1>3. PaidRow(r) \in Row
  BY <1>1, <1>2, NewRowType DEF PaidRow, Status
<1>4. /\ PaidRow(r).id = r /\ PaidRow(r).type = req[r].kind
      /\ PaidRow(r).status = "PERFORMED" /\ PaidRow(r).wallet = req[r].wallet
      /\ PaidRow(r).senderId = Null /\ PaidRow(r).affectedAmount = - req[r].amount
  BY DEF PaidRow, NewRow
<1>5. ReceivedRow(r) = [id |-> r, wallet |-> req[r].to,
                        senderId |-> req[r].wallet,
                        affectedAmount |-> req[r].amount - Fee,
                        type |-> req[r].kind, status |-> "PERFORMED"]
  BY DEF ReceivedRow, NewRow
<1>6. ReceivedRow(r) \in Row
  BY <1>1, <1>2, <1>5 DEF Row, Status
<1>7. /\ ReceivedRow(r).id = r /\ ReceivedRow(r).type = req[r].kind
      /\ ReceivedRow(r).status = "PERFORMED" /\ ReceivedRow(r).wallet = req[r].to
      /\ ReceivedRow(r).senderId = req[r].wallet
      /\ ReceivedRow(r).affectedAmount = req[r].amount - Fee
  BY <1>5
<1>8. PaidRow(r) # ReceivedRow(r)
  BY <1>1, <1>4, <1>7, LedgerAssumption
<1>9. QED BY <1>3, <1>4, <1>6, <1>7, <1>8

(* A deposit starts as a request that is not beside anything. *)
LEMMA DepositRequest ==
  ASSUME NEW r \in Req, NEW w \in Wallet, NEW a \in Amount, DepositPay(r, w, a)
  PROVE  /\ req[r].pc = "idle"
         /\ payment' = [payment EXCEPT ![r] = "open"]
         /\ \E j \in Begun :
              /\ j.pc \in {"saving", "lost"} /\ j.kind = "deposit"
              /\ "lost_answer" \notin Hazard => j.pc = "saving"
              /\ req' = [req EXCEPT ![r] = j]
         /\ UNCHANGED <<transaction, notice, handler, outbox>>
<1> DEFINE j(pc) == [pc |-> pc, kind |-> "deposit", wallet |-> w, to |-> w,
                     amount |-> a, beside |-> "none"]
<1>1. \/ req' = [req EXCEPT ![r] = j("saving")]
      \/ "lost_answer" \in Hazard /\ req' = [req EXCEPT ![r] = j("lost")]
  BY DEF DepositPay, ProviderCall, Idle
<1>2. \A pc \in {"saving", "lost"} :
        j(pc) \in Begun /\ j(pc).pc = pc /\ j(pc).kind = "deposit"
  BY DEF Begun, Kind
<1> HIDE DEF j
<1>3. QED BY <1>1, <1>2 DEF DepositPay, ProviderCall

(* findOneBy answers a status of the table, or null. *)
LEMMA SnapshotType ==
  ASSUME TypeOK, NEW h \in Handler
  PROVE  Snapshot(h) \in Status \cup {"null"}
<1>1. CASE handler[h].hit \/ RowsOf(Ref(h)) = {}
  BY <1>1 DEF Snapshot, Status
<1>2. CASE ~ handler[h].hit /\ RowsOf(Ref(h)) # {}
  <2> DEFINE t == CHOOSE t \in RowsOf(Ref(h)) : TRUE
  <2>1. t \in transaction BY <1>2 DEF RowsOf
  <2>2. t.status \in Status BY <2>1 DEF TypeOK, Row
  <2>3. QED BY <1>2, <2>2 DEF Snapshot
<1>3. QED BY <1>1, <1>2

(***************************************************************************)
(* The types of the variables: what every later step relies on.            *)
(***************************************************************************)
LEMMA TypeStep == TypeOK /\ [Next]_vars => TypeOK'
<1> SUFFICES ASSUME TypeOK, [Next]_vars PROVE TypeOK' OBVIOUS
<1>1. ASSUME NEW r \in Req, NEW w \in Wallet, NEW a \in Amount,
             DepositPay(r, w, a)
      PROVE  TypeOK'
  BY <1>1, DepositRequest DEF Provider, TypeOK
<1>2. ASSUME NEW r \in Req, NEW w \in Wallet, NEW a \in Amount,
             WithdrawalCheck(r, w, a)
      PROVE  TypeOK'
  BY <1>2 DEF WithdrawalCheck, Begin, Kind, TypeOK, Begun
<1>3. ASSUME NEW r \in Req, NEW w \in Wallet, NEW a \in Amount,
             NEW to \in Wallet, TransferCheck(r, w, to, a)
      PROVE  TypeOK'
  BY <1>3 DEF TransferCheck, Begin, Kind, TypeOK, Begun
<1>4. ASSUME NEW r \in Req, WithdrawalPay(r) PROVE TypeOK'
  <2>1. req[r] \in Begun BY <1>4, BegunReq DEF WithdrawalPay
  <2>2. QED
    BY <1>4, <2>1 DEF WithdrawalPay, ProviderCall, Provider, TypeOK, Begun
<1>5. ASSUME NEW r \in Req, Refuse(r) PROVE TypeOK'
  <2>1. req[r] \in Begun BY <1>5, BegunReq DEF Refuse
  <2>2. QED BY <1>5, <2>1 DEF Refuse, TypeOK, Begun
<1>6. ASSUME NEW r \in Req, SaveRow(r) PROVE TypeOK'
  <2>1. req[r] \in Begun BY <1>6, BegunReq DEF SaveRow
  <2> DEFINE a == IF IsDebit(r) THEN - req[r].amount ELSE req[r].amount
  <2>2. req[r].wallet \in Wallet BY <2>1 DEF Begun
  <2>5. a \in Int BY <2>1, AmountIsInt
  <2>3. NewRow(r, req[r].wallet, a, "IN_PROGRESS") \in Row
    BY <2>1, <2>2, <2>5, NewRowType DEF Status
  <2>4. QED BY <1>6, <2>1, <2>3 DEF SaveRow, TypeOK, Begun
<1>7. ASSUME NEW r \in Req, TransferInsert(r) PROVE TypeOK'
  <2>1. req[r] \in Begun BY <1>7, BegunReq DEF TransferInsert
  <2>2. PaidRow(r) \in Row /\ ReceivedRow(r) \in Row
    BY <2>1, TransferRowTypes
  <2>3. QED BY <1>7, <2>1, <2>2 DEF TransferInsert, TypeOK, Begun
<1>8. CASE ApiCrash
  <2>1. \A r \in Req : req[r].pc \in {"checked", "saving"} => req[r] \in Begun
    BY BegunReq
  <2>2. QED BY <1>8, <2>1 DEF ApiCrash, TypeOK, Begun
<1>9. ASSUME NEW r \in Req, ProviderInterim(r) PROVE TypeOK'
  BY <1>9 DEF ProviderInterim, Notice, Provider, TypeOK, Busy
<1>10. ASSUME NEW r \in Req, NEW outcome \in {"done", "dead"},
              ProviderSettle(r, outcome)
       PROVE  TypeOK'
  BY <1>10 DEF ProviderSettle, Notice, Provider, TypeOK, Busy
<1>11. ASSUME NEW h \in Handler, NEW n \in notice, TakeNotice(h, n)
       PROVE  TypeOK'
  <2>1. n \in Notice /\ n.ref \in Req /\ n.status \in Provider
    BY DEF Notice, TypeOK
  <2> DEFINE verdict == IF req[n.ref].kind = "withdrawal"
                        THEN payment[n.ref] ELSE n.status
  <2>2. verdict \in Provider \cup {"none"} BY <2>1 DEF TypeOK
  <2>3. [Free EXCEPT !.pc = "decided", !.notice = n, !.verdict = verdict]
          \in Busy
    BY <2>1, <2>2 DEF Free, Busy
  <2>4. QED BY <1>11, <2>3 DEF TakeNotice, TypeOK
<1>12. ASSUME NEW h \in Handler, HandleReject(h) PROVE TypeOK'
  <2>1. transaction' \subseteq Row
    BY <1>12, SetStatusType DEF HandleReject, Status, TypeOK
  <2>2. QED BY <1>12, <2>1 DEF HandleReject, Answer, TypeOK
<1>13. ASSUME NEW h \in Handler, HandleUpdate(h) PROVE TypeOK'
  <2>1. handler[h] \in Busy BY <1>13, BusyHandler DEF HandleUpdate
  <2>2. QED BY <1>13, <2>1 DEF HandleUpdate, TypeOK, Busy
<1>14. ASSUME NEW h \in Handler, HandleCommit(h) PROVE TypeOK'
  <2>1. transaction' \subseteq Row
    BY <1>14, SetStatusType DEF HandleCommit, Status, TypeOK
  <2>2. handler[h] \in Busy BY <1>14, BusyHandler DEF HandleCommit
  <2>3. Ref(h) \in Req BY <2>2 DEF Busy, Notice, Ref
  <2>4. Snapshot(h) \in Status \cup {"null"} BY SnapshotType
  <2>5. [handler[h] EXCEPT !.pc = "enqueue", !.snapshot = Snapshot(h)] \in Busy
    BY <2>2, <2>4 DEF Busy
  <2>6. outbox' \subseteq [ref : Req, snapshot : Status \cup {"null"}]
    BY <1>14, <2>3, <2>4 DEF HandleCommit, Enqueue, TypeOK
  <2>7. handler' \in [Handler -> {Free} \cup Busy]
    BY <1>14, <2>5 DEF HandleCommit, TypeOK
  <2>8. QED BY <1>14, <2>1, <2>6, <2>7 DEF HandleCommit, Answer, TypeOK
<1>15. ASSUME NEW h \in Handler, HandleEnqueue(h) PROVE TypeOK'
  <2>1. handler[h] \in Busy BY <1>15, BusyHandler DEF HandleEnqueue
  <2>2. QED BY <1>15, <2>1 DEF HandleEnqueue, Enqueue, TypeOK, Busy, Notice, Ref
<1>16. CASE WebhookCrash
  BY <1>16 DEF WebhookCrash, TypeOK
<1>17. CASE UNCHANGED vars
  BY <1>17 DEF vars, TypeOK
<1>18. QED
  BY <1>1, <1>2, <1>3, <1>4, <1>5, <1>6, <1>7, <1>8, <1>9, <1>10, <1>11,
     <1>12, <1>13, <1>14, <1>15, <1>16, <1>17
     DEF Next, ApiStep, HandlerStep

(***************************************************************************)
(* Type correctness of the ledger, under every hazard.                     *)
(***************************************************************************)
THEOREM TypeCorrect == Spec => []TypeOK
<1>1. Init => TypeOK
  BY DEF Init, TypeOK, Provider
<1>2. QED BY <1>1, TypeStep, PTL DEF Spec

-----------------------------------------------------------------------------
(***************************************************************************)
(* The backing invariant.  The provider's part only looks at payment,      *)
(* notice, handler and req; the rows' part only at transaction, req and    *)
(* payment.  Each action disturbs one of the two.                          *)
(***************************************************************************)
ProviderInv == NoticeBacked /\ VerdictBacked /\ PaymentRequested
RowsInv     == RowsOfDone /\ SettledBacked /\ RowsMatchRequests

LEMMA InvParts == LedgerInv <=> ProviderInv /\ RowsInv
BY DEF LedgerInv, ProviderInv, RowsInv

(* A row stays accounted for when its request and its payment do, and no    *)
(* row of its request appears or disappears.                               *)
LEMMA RowsKept ==
  ASSUME TypeOK, RowsInv, UNCHANGED transaction,
         \A t \in transaction :
           req'[t.id] = req[t.id]
           /\ (payment[t.id] # "none" => payment'[t.id] # "none")
           /\ (payment[t.id] = "done" => payment'[t.id] = "done")
  PROVE  RowsInv'
BY DEF RowsInv, RowsOfDone, SettledBacked, RowsMatchRequests, RowsOf, PaymentRow

(* The rows survive a change of status, if "PERFORMED" has its backing.     *)
LEMMA RowsRestatus ==
  ASSUME TypeOK, RowsInv, NEW ref \in Req, NEW s \in Status,
         transaction' = SetStatus(ref, s), UNCHANGED <<req, payment>>,
         s = "PERFORMED" => payment[ref] = "done"
  PROVE  RowsInv'
<1>1. transaction \subseteq Row BY DEF TypeOK
<1>2. ASSUME NEW u \in transaction'
      PROVE  \E t \in transaction :
               /\ u.id = t.id /\ u.wallet = t.wallet /\ u.type = t.type
               /\ u.affectedAmount = t.affectedAmount
               /\ u = IF t.id = ref THEN [t EXCEPT !.status = s] ELSE t
               /\ u.status = IF t.id = ref THEN s ELSE t.status
  BY <1>1, <1>2, SetStatusRow
<1>3. RowsOfDone' BY <1>2 DEF RowsInv, RowsOfDone
<1>4. SettledBacked'
  BY <1>2 DEF RowsInv, SettledBacked, PaymentRow
<1>5. RowsMatchRequests'
  <2> SUFFICES ASSUME NEW u \in transaction', PaymentRow(u)
               PROVE  /\ req[u.id].pc = "done" /\ u.type = req[u.id].kind
                      /\ payment[u.id] # "none"
                      /\ u.wallet = req[u.id].wallet
                      /\ u.affectedAmount = IF u.type = "deposit"
                                            THEN req[u.id].amount
                                            ELSE - req[u.id].amount
                      /\ \A v \in transaction' : v.id = u.id => v = u
    BY DEF RowsMatchRequests, RowsOf, PaymentRow
  <2>1. PICK t \in transaction :
               /\ u.id = t.id /\ u.wallet = t.wallet /\ u.type = t.type
               /\ u.affectedAmount = t.affectedAmount
               /\ u = IF t.id = ref THEN [t EXCEPT !.status = s] ELSE t
    BY <1>2
  <2>2. PaymentRow(t) BY <2>1 DEF PaymentRow
  <2>3. ASSUME NEW v \in transaction', v.id = u.id PROVE v = u
    <3>1. PICK x \in transaction :
                 v.id = x.id /\ v = IF x.id = ref THEN [x EXCEPT !.status = s] ELSE x
      BY <1>2
    <3>2. x \in RowsOf(t.id) BY <2>1, <2>3, <3>1 DEF RowsOf
    <3>3. x = t BY <2>2, <3>2 DEF RowsInv, RowsMatchRequests
    <3>4. QED BY <2>1, <3>1, <3>3
  <2>4. QED BY <2>1, <2>2, <2>3 DEF RowsInv, RowsMatchRequests
<1>6. QED BY <1>3, <1>4, <1>5 DEF RowsInv

(* A request that has no row yet gets its rows and is done.                 *)
LEMMA RowsAdded ==
  ASSUME TypeOK, RowsInv, NEW r \in Req,
         req[r].pc \in {"checked", "saving"},
         transaction \subseteq transaction',
         req' = [req EXCEPT ![r].pc = "done"], UNCHANGED payment,
         \A t \in transaction' \ transaction : t.id = r /\ t.type = req[r].kind,
         \A t \in transaction' \ transaction : PaymentRow(t) =>
           /\ transaction' = transaction \cup {t}
           /\ payment[r] # "none" /\ t.status = "IN_PROGRESS"
           /\ t.wallet = req[r].wallet
           /\ t.affectedAmount = IF t.type = "deposit" THEN req[r].amount
                                 ELSE - req[r].amount
  PROVE  RowsInv'
<1>1. req[r] \in Begun BY BegunReq
<1>2. /\ req'[r].pc = "done" /\ req'[r].kind = req[r].kind
      /\ req'[r].wallet = req[r].wallet /\ req'[r].amount = req[r].amount
  BY <1>1 DEF TypeOK, Begun
<1>3. \A t \in transaction : t.id \in Req /\ t.id # r /\ req'[t.id] = req[t.id]
  BY DEF RowsInv, RowsOfDone, TypeOK, Row
<1>4. RowsOfDone' BY <1>2, <1>3 DEF RowsInv, RowsOfDone
<1>5. SettledBacked' BY <1>3 DEF RowsInv, SettledBacked, PaymentRow
<1>6. RowsMatchRequests'
  <2> SUFFICES ASSUME NEW u \in transaction', PaymentRow(u)
               PROVE  /\ req'[u.id].pc = "done" /\ u.type = req'[u.id].kind
                      /\ payment[u.id] # "none"
                      /\ u.wallet = req'[u.id].wallet
                      /\ u.affectedAmount = IF u.type = "deposit"
                                            THEN req'[u.id].amount
                                            ELSE - req'[u.id].amount
                      /\ \A v \in transaction' : v.id = u.id => v = u
    BY DEF RowsMatchRequests, RowsOf, PaymentRow
  <2>1. CASE u \in transaction
    BY <2>1, <1>3 DEF RowsInv, RowsMatchRequests, RowsOf
  <2>2. CASE u \in transaction' \ transaction
    BY <2>2, <1>2, <1>3
  <2>3. QED BY <2>1, <2>2
<1>7. QED BY <1>4, <1>5, <1>6 DEF RowsInv

(* Steps that leave notice and handler alone, add payments, and move requests
   that have one no further than "saving", "done" or "lost".               *)
LEMMA ProviderKept ==
  ASSUME TypeOK, ProviderInv, UNCHANGED <<notice, handler>>,
         \A r \in Req :
           /\ payment[r] # "none" => payment'[r] = payment[r]
           /\ payment'[r] # "none" =>
                /\ req'[r].pc \in {"saving", "done", "lost"}
                /\ req'[r].kind \in {"deposit", "withdrawal"}
           /\ req'[r].pc = "saving" => payment'[r] # "none"
  PROVE  ProviderInv'
<1>1. \A n \in notice : n.ref \in Req /\ payment[n.ref] # "none"
  BY DEF ProviderInv, NoticeBacked, TypeOK, Notice
<1>2. NoticeBacked' BY <1>1 DEF ProviderInv, NoticeBacked
<1>3. ASSUME NEW h \in Handler, handler[h].pc # "free"
      PROVE  Ref(h) \in Req /\ Ref(h)' = Ref(h)
  <2>1. handler[h] \in Busy BY <1>3, BusyHandler
  <2>2. QED BY <2>1 DEF Busy, Notice, Ref
<1>4. VerdictBacked' BY <1>3 DEF ProviderInv, VerdictBacked
<1>5. PaymentRequested' BY DEF PaymentRequested
<1>6. QED BY <1>2, <1>4, <1>5 DEF ProviderInv

LEMMA ProviderStep == TypeOK /\ ProviderInv /\ [Next]_vars => ProviderInv'
<1> SUFFICES ASSUME TypeOK, ProviderInv, [Next]_vars PROVE ProviderInv' OBVIOUS
<1>1. ASSUME NEW r \in Req, NEW w \in Wallet, NEW a \in Amount,
             DepositPay(r, w, a)
      PROVE  ProviderInv'
  <2>1. payment[r] = "none" BY <1>1 DEF DepositPay, ProviderInv, PaymentRequested
  <2>2. QED
    BY <1>1, <2>1, DepositRequest, ProviderKept
    DEF ProviderInv, PaymentRequested, TypeOK
<1>2. ASSUME NEW r \in Req, NEW kind \in Kind, NEW pc \in {"checked", "refused"},
             NEW w \in Wallet, NEW to \in Wallet, NEW a \in Amount,
             Begin(r, pc, kind, w, to, a), UNCHANGED <<payment, notice, handler>>
      PROVE  ProviderInv'
  BY <1>2, ProviderKept DEF Begin, ProviderInv, PaymentRequested, TypeOK
<1>3. ASSUME NEW r \in Req, NEW w \in Wallet, NEW a \in Amount,
             WithdrawalCheck(r, w, a)
      PROVE  ProviderInv'
  BY <1>2, <1>3 DEF WithdrawalCheck, Kind
<1>4. ASSUME NEW r \in Req, NEW w \in Wallet, NEW a \in Amount,
             NEW to \in Wallet, TransferCheck(r, w, to, a)
      PROVE  ProviderInv'
  BY <1>2, <1>4 DEF TransferCheck, Kind
<1>5. ASSUME NEW r \in Req, WithdrawalPay(r) PROVE ProviderInv'
  <2>1. payment[r] = "none"
    BY <1>5 DEF WithdrawalPay, ProviderInv, PaymentRequested
  <2>2. req[r] \in Begun BY <1>5, BegunReq DEF WithdrawalPay
  <2>3. QED
    BY <1>5, <2>1, <2>2, ProviderKept
    DEF WithdrawalPay, ProviderCall, ProviderInv, PaymentRequested, TypeOK, Begun
<1>6. ASSUME NEW r \in Req, NEW pc \in {"done", "refused", "lost"},
             req[r].pc \in {"checked", "saving"},
             req[r].pc = "saving" => pc # "refused",
             req' = [req EXCEPT ![r].pc = pc],
             UNCHANGED <<payment, notice, handler>>
      PROVE  ProviderInv'
  <2>1. req[r] \in Begun BY <1>6, BegunReq
  <2>2. QED
    BY <1>6, <2>1, ProviderKept DEF ProviderInv, PaymentRequested, TypeOK, Begun
<1>7. ASSUME NEW r \in Req, Refuse(r) \/ SaveRow(r) \/ TransferInsert(r)
      PROVE  ProviderInv'
  BY <1>6, <1>7 DEF Refuse, SaveRow, TransferInsert
<1>8. CASE ApiCrash
  <2>1. \A r \in Req : req[r].pc \in {"checked", "saving"} => req[r] \in Begun
    BY BegunReq
  <2>2. \A r \in Req :
          /\ req'[r].pc = IF req[r].pc \in {"checked", "saving"}
                          THEN "lost" ELSE req[r].pc
          /\ req'[r].kind = req[r].kind
    BY <1>8, <2>1 DEF ApiCrash, Begun
  <2>3. QED
    BY <1>8, <2>2, ProviderKept DEF ApiCrash, ProviderInv, PaymentRequested
<1>9. ASSUME NEW r \in Req, ProviderInterim(r) PROVE ProviderInv'
  BY <1>9 DEF ProviderInterim, ProviderInv, NoticeBacked, VerdictBacked,
              PaymentRequested, Ref
<1>10. ASSUME NEW r \in Req, NEW outcome \in {"done", "dead"},
              ProviderSettle(r, outcome)
       PROVE  ProviderInv'
  <2>1. \A q \in Req : payment'[q] = IF q = r THEN outcome ELSE payment[q]
    BY <1>10 DEF ProviderSettle, TypeOK
  <2>2. \A n \in notice : n.ref \in Req BY DEF TypeOK, Notice
  <2>3. NoticeBacked'
    BY <1>10, <2>1, <2>2 DEF ProviderSettle, ProviderInv, NoticeBacked
  <2>4. ASSUME NEW h \in Handler, handler[h].pc # "free" PROVE Ref(h) \in Req
    <3>1. handler[h] \in Busy BY <2>4, BusyHandler
    <3>2. QED BY <3>1 DEF Busy, Notice, Ref
  <2>5. VerdictBacked'
    BY <1>10, <2>1, <2>4 DEF ProviderSettle, ProviderInv, VerdictBacked, Ref
  <2>6. PaymentRequested'
    BY <1>10, <2>1 DEF ProviderSettle, ProviderInv, PaymentRequested
  <2>7. QED BY <2>3, <2>5, <2>6 DEF ProviderInv
<1>11. ASSUME NEW h \in Handler, NEW n \in notice, TakeNotice(h, n)
       PROVE  ProviderInv'
  <2> DEFINE verdict == IF req[n.ref].kind = "withdrawal"
                        THEN payment[n.ref] ELSE n.status
  <2>1. \A g \in Handler : handler'[g] =
          IF g = h THEN [Free EXCEPT !.pc = "decided", !.notice = n,
                                     !.verdict = verdict]
          ELSE handler[g]
    BY <1>11 DEF TakeNotice, TypeOK
  <2>2. verdict = "done" => payment[n.ref] = "done"
    BY DEF ProviderInv, NoticeBacked
  <2>3. /\ handler'[h].pc = "decided" /\ handler'[h].verdict = verdict
        /\ handler'[h].notice = n
    BY <2>1 DEF Free
  <2>4. VerdictBacked'
    BY <1>11, <2>1, <2>2, <2>3 DEF TakeNotice, ProviderInv, VerdictBacked, Ref
  <2>5. QED
    BY <1>11, <2>4 DEF TakeNotice, ProviderInv, NoticeBacked, PaymentRequested
<1>12. ASSUME NEW h \in Handler, HandlerStep(h) PROVE ProviderInv'
  <2>1. handler[h] \in Busy
    BY <1>12, BusyHandler
    DEF HandlerStep, HandleReject, HandleUpdate, HandleCommit, HandleEnqueue
  <2>2. \A g \in Handler :
          \/ handler'[g].pc = "free"
          \/ /\ handler[g].pc # "free"
             /\ handler'[g].verdict = handler[g].verdict
             /\ handler'[g].notice = handler[g].notice
             /\ handler'[g].pc = "updated" =>
                  handler[g].pc = "updated" \/ handler[g].verdict = "done"
    BY <1>12, <2>1
    DEF HandlerStep, HandleReject, HandleUpdate, HandleCommit, HandleEnqueue,
        Succeeded, TypeOK, Busy, Free
  <2>3. notice' \subseteq notice /\ UNCHANGED <<req, payment>>
    BY <1>12
    DEF HandlerStep, HandleReject, HandleUpdate, HandleCommit, HandleEnqueue,
        Answer
  <2>4. VerdictBacked' BY <2>2, <2>3 DEF ProviderInv, VerdictBacked, Ref
  <2>5. QED BY <2>3, <2>4 DEF ProviderInv, NoticeBacked, PaymentRequested
<1>13. CASE WebhookCrash
  BY <1>13 DEF WebhookCrash, Free, ProviderInv, NoticeBacked, VerdictBacked,
               PaymentRequested
<1>14. CASE UNCHANGED vars
  BY <1>14 DEF vars, ProviderInv, NoticeBacked, VerdictBacked,
               PaymentRequested, Ref
<1>15. QED
  BY <1>1, <1>3, <1>4, <1>5, <1>7, <1>8, <1>9, <1>10, <1>11, <1>12, <1>13,
     <1>14 DEF Next, ApiStep

LEMMA RowsStep ==
  TypeOK /\ ProviderInv /\ RowsInv /\ [Next]_vars => RowsInv'
<1> SUFFICES ASSUME TypeOK, ProviderInv, RowsInv, [Next]_vars PROVE RowsInv'
  OBVIOUS
<1>0. \A t \in transaction : t.id \in Req /\ req[t.id].pc = "done"
  BY DEF RowsInv, RowsOfDone, TypeOK, Row
<1>1. ASSUME NEW r \in Req, SaveRow(r) PROVE RowsInv'
  <2> DEFINE a == IF IsDebit(r) THEN - req[r].amount ELSE req[r].amount
             new == {NewRow(r, req[r].wallet, a, "IN_PROGRESS")}
  <2>1. req[r].kind \in {"deposit", "withdrawal"} /\ payment[r] # "none"
    BY <1>1 DEF SaveRow, ProviderInv, PaymentRequested
  <2>2. \A t \in new : /\ t.id = r /\ t.type = req[r].kind
                       /\ new = {t} /\ t.status = "IN_PROGRESS"
                       /\ t.wallet = req[r].wallet /\ t.affectedAmount = a
    BY DEF NewRow
  <2>3. a = IF req[r].kind = "deposit" THEN req[r].amount ELSE - req[r].amount
    BY <2>1 DEF IsDebit
  <2>4. transaction' = transaction \cup new BY <1>1 DEF SaveRow
  <2>5. req' = [req EXCEPT ![r].pc = "done"] /\ UNCHANGED payment
        /\ req[r].pc \in {"checked", "saving"}
    BY <1>1 DEF SaveRow
  <2> HIDE DEF new, a
  <2>6. QED BY <2>1, <2>2, <2>3, <2>4, <2>5, RowsAdded
<1>2. ASSUME NEW r \in Req, TransferInsert(r) PROVE RowsInv'
  <2> DEFINE new == {PaidRow(r), ReceivedRow(r)}
  <2>1. \A t \in new : t.id = r /\ t.type = req[r].kind
    BY <1>2, BegunReq, TransferRowTypes DEF TransferInsert
  <2>2. \A t \in new : ~ PaymentRow(t)
    BY <1>2, <2>1 DEF TransferInsert, PaymentRow
  <2>3. transaction' = transaction \cup new BY <1>2 DEF TransferInsert
  <2>4. req' = [req EXCEPT ![r].pc = "done"] /\ UNCHANGED payment
        /\ req[r].pc \in {"checked", "saving"}
    BY <1>2 DEF TransferInsert
  <2> HIDE DEF new
  <2>5. QED BY <2>1, <2>2, <2>3, <2>4, RowsAdded
<1>3. ASSUME NEW h \in Handler, HandleReject(h) PROVE RowsInv'
  <2>1. handler[h] \in Busy BY <1>3, BusyHandler DEF HandleReject
  <2>2. Ref(h) \in Req BY <2>1 DEF Busy, Notice, Ref
  <2>3. QED BY <1>3, <2>2, RowsRestatus DEF HandleReject, Status
<1>4. ASSUME NEW h \in Handler, HandleCommit(h) PROVE RowsInv'
  <2>1. handler[h] \in Busy BY <1>4, BusyHandler DEF HandleCommit
  <2>2. Ref(h) \in Req BY <2>1 DEF Busy, Notice, Ref
  <2>3. payment[Ref(h)] = "done"
    BY <1>4 DEF HandleCommit, ProviderInv, VerdictBacked
  <2>4. CASE transaction' = SetStatus(Ref(h), "PERFORMED")
    BY <1>4, <2>2, <2>3, <2>4, RowsRestatus DEF HandleCommit, Status
  <2>5. CASE UNCHANGED transaction
    BY <1>4, <2>5, RowsKept DEF HandleCommit
  <2>6. QED BY <1>4, <2>4, <2>5 DEF HandleCommit
<1>5. ASSUME UNCHANGED transaction,
             \A r \in Req : req[r].pc = "done" => req'[r] = req[r],
             \A r \in Req : payment[r] # "none" =>
               \/ payment'[r] = payment[r]
               \/ payment[r] = "open" /\ payment'[r] # "none"
      PROVE  RowsInv'
  BY <1>0, <1>5, RowsKept
<1>6. ASSUME NEW r \in Req, NEW w \in Wallet, NEW a \in Amount,
             \/ DepositPay(r, w, a)
             \/ WithdrawalCheck(r, w, a)
             \/ \E to \in Wallet : TransferCheck(r, w, to, a)
      PROVE  RowsInv'
  BY <1>5, <1>6
  DEF DepositPay, ProviderCall, WithdrawalCheck, TransferCheck, Begin, TypeOK,
      ProviderInv, PaymentRequested
<1>7. ASSUME NEW r \in Req, WithdrawalPay(r) \/ Refuse(r) PROVE RowsInv'
  BY <1>5, <1>7
  DEF WithdrawalPay, ProviderCall, Refuse, TypeOK, ProviderInv, PaymentRequested
<1>8. ASSUME NEW r \in Req, NEW outcome \in {"done", "dead"},
             ProviderSettle(r, outcome)
      PROVE  RowsInv'
  BY <1>5, <1>8 DEF ProviderSettle, TypeOK
<1>9. ASSUME NEW r \in Req, ProviderInterim(r) PROVE RowsInv'
  BY <1>5, <1>9 DEF ProviderInterim
<1>10. ASSUME NEW h \in Handler,
              \/ \E n \in notice : TakeNotice(h, n)
              \/ HandleUpdate(h)
              \/ HandleEnqueue(h)
       PROVE  RowsInv'
  BY <1>5, <1>10 DEF TakeNotice, HandleUpdate, HandleEnqueue
<1>11. CASE ApiCrash
  BY <1>5, <1>11 DEF ApiCrash
<1>12. CASE WebhookCrash \/ UNCHANGED vars
  BY <1>5, <1>12 DEF WebhookCrash, vars
<1>13. QED
  BY <1>1, <1>2, <1>3, <1>4, <1>6, <1>7, <1>8, <1>9, <1>10, <1>11, <1>12
  DEF Next, ApiStep, HandlerStep

(***************************************************************************)
(* The backing invariant holds in every state, under every hazard.         *)
(***************************************************************************)
THEOREM LedgerInvariant == Spec => []LedgerInv
<1>1. Init => LedgerInv
  BY DEF Init, Free, LedgerInv, NoticeBacked, VerdictBacked, PaymentRequested,
         RowsOfDone, SettledBacked, RowsMatchRequests, Idle
<1>2. TypeOK /\ LedgerInv /\ [Next]_vars => LedgerInv'
  BY InvParts, ProviderStep, RowsStep DEF LedgerInv, ProviderInv, RowsInv
<1>3. QED BY <1>1, <1>2, TypeCorrect, PTL DEF Spec

(***************************************************************************)
(* A deposit or withdrawal counts in a balance only if the provider has    *)
(* completed it.                                                           *)
(***************************************************************************)
THEOREM BalancesAreBacked == Spec => []SettledBacked
<1>1. LedgerInv => SettledBacked BY DEF LedgerInv
<1>2. QED BY <1>1, LedgerInvariant, PTL

(***************************************************************************)
(* A payment has at most one row, on the wallet and with the amount its    *)
(* request asked for.                                                      *)
(***************************************************************************)
THEOREM RowsAreThoseRequested == Spec => []RowsMatchRequests
<1>1. LedgerInv => RowsMatchRequests BY DEF LedgerInv
<1>2. QED BY <1>1, LedgerInvariant, PTL

-----------------------------------------------------------------------------
(***************************************************************************)
(* Without interim notices every word of the provider is its last, so no   *)
(* two executions ever disagree about a payment.                           *)
(***************************************************************************)
Final(s) == s \in {"done", "dead"}

FinalInv ==
  /\ \A n \in notice : Final(n.status) /\ n.status = payment[n.ref]
  /\ \A h \in Handler : handler[h].pc # "free" =>
       Final(handler[h].verdict) /\ handler[h].verdict = payment[Ref(h)]
  /\ \A t \in transaction :
       PaymentRow(t) /\ t.status = "REJECTED" => payment[t.id] = "dead"

(* A step that changes no row, no final decision, and no notice or handler, *)
(* except to forget them.                                                  *)
LEMMA FinalKept ==
  ASSUME TypeOK, FinalInv,
         \A r \in Req : Final(payment[r]) => payment'[r] = payment[r],
         notice' \subseteq notice,
         \A h \in Handler : \/ handler'[h].pc = "free"
                            \/ /\ handler[h].pc # "free"
                               /\ handler'[h].verdict = handler[h].verdict
                               /\ handler'[h].notice = handler[h].notice,
         \A t \in transaction' :
           \/ t \in transaction
           \/ PaymentRow(t) /\ t.status = "REJECTED" =>
                t.id \in Req /\ payment'[t.id] = "dead"
  PROVE  FinalInv'
<1>1. \A n \in notice : n.ref \in Req BY DEF TypeOK, Notice
<1>2. \A h \in Handler : handler[h].pc # "free" => Ref(h) \in Req
  BY BusyHandler DEF Busy, Notice, Ref
<1>3. \A t \in transaction : t.id \in Req BY DEF TypeOK, Row
<1>4. \A n \in notice' : Final(n.status) /\ n.status = payment'[n.ref]
  BY <1>1 DEF FinalInv
<1>5. \A h \in Handler : handler'[h].pc # "free" =>
        Final(handler'[h].verdict) /\ handler'[h].verdict = payment'[Ref(h)']
  BY <1>2 DEF FinalInv, Ref
<1>6. \A t \in transaction' :
        PaymentRow(t) /\ t.status = "REJECTED" => payment'[t.id] = "dead"
  BY <1>3 DEF FinalInv, Final
<1>7. QED BY <1>4, <1>5, <1>6 DEF FinalInv, PaymentRow, Final

(* The rows a change of status leaves: those of other requests, and those   *)
(* with the new status.                                                    *)
LEMMA RestatusFinal ==
  ASSUME TypeOK, NEW ref \in Req, NEW s \in Status,
         s = "REJECTED" => payment[ref] = "dead",
         NEW u \in SetStatus(ref, s)
  PROVE  \/ u \in transaction
         \/ PaymentRow(u) /\ u.status = "REJECTED" =>
              u.id \in Req /\ payment[u.id] = "dead"
<1>1. PICK t \in transaction :
        /\ u.id = t.id
        /\ u = IF t.id = ref THEN [t EXCEPT !.status = s] ELSE t
        /\ u.status = IF t.id = ref THEN s ELSE t.status
  BY SetStatusRow DEF TypeOK
<1>2. QED BY <1>1

LEMMA FinalStep ==
  ASSUME "interim_notice" \notin Hazard
  PROVE  TypeOK /\ LedgerInv /\ FinalInv /\ [Next]_vars => FinalInv'
<1> SUFFICES ASSUME TypeOK, LedgerInv, FinalInv, [Next]_vars PROVE FinalInv'
  OBVIOUS
<1>0. \A r \in Req : req[r].pc \in {"idle", "checked"} => payment[r] = "none"
  BY DEF LedgerInv, PaymentRequested
<1>1. ASSUME NEW r \in Req, NEW w \in Wallet, NEW a \in Amount,
             \/ DepositPay(r, w, a)
             \/ WithdrawalCheck(r, w, a)
             \/ \E to \in Wallet : TransferCheck(r, w, to, a)
      PROVE  FinalInv'
  BY <1>0, <1>1, FinalKept
  DEF DepositPay, ProviderCall, WithdrawalCheck, TransferCheck, Begin, TypeOK,
      Final, Idle
<1>2. ASSUME NEW r \in Req, WithdrawalPay(r) \/ Refuse(r) PROVE FinalInv'
  BY <1>0, <1>2, FinalKept
  DEF WithdrawalPay, ProviderCall, Refuse, TypeOK, Final
<1>3. ASSUME NEW r \in Req, SaveRow(r) \/ TransferInsert(r) PROVE FinalInv'
  <2>1. \A t \in transaction' \ transaction : t.status # "REJECTED"
    BY <1>3, BegunReq, TransferRowTypes DEF SaveRow, TransferInsert, NewRow
  <2>2. QED BY <1>3, <2>1, FinalKept DEF SaveRow, TransferInsert
<1>4. ASSUME NEW r \in Req, NEW outcome \in {"done", "dead"},
             ProviderSettle(r, outcome)
      PROVE  FinalInv'
  <2>1. \A q \in Req : payment'[q] = IF q = r THEN outcome ELSE payment[q]
    BY <1>4 DEF ProviderSettle, TypeOK
  <2>2. payment[r] = "open" BY <1>4 DEF ProviderSettle
  <2>3. \A n \in notice : n.ref \in Req BY DEF TypeOK, Notice
  <2>4. \A n \in notice' : Final(n.status) /\ n.status = payment'[n.ref]
    BY <1>4, <2>1, <2>2, <2>3 DEF ProviderSettle, FinalInv, Final
  <2>5. \A h \in Handler : handler[h].pc # "free" => Ref(h) \in Req
    BY BusyHandler DEF Busy, Notice, Ref
  <2>6. \A h \in Handler : handler'[h].pc # "free" =>
          Final(handler'[h].verdict) /\ handler'[h].verdict = payment'[Ref(h)']
    BY <1>4, <2>1, <2>2, <2>5 DEF ProviderSettle, FinalInv, Final, Ref
  <2>7. \A t \in transaction' :
          PaymentRow(t) /\ t.status = "REJECTED" => payment'[t.id] = "dead"
    BY <1>4, <2>1, <2>2 DEF ProviderSettle, FinalInv, TypeOK, Row
  <2>8. QED BY <2>4, <2>6, <2>7 DEF FinalInv, PaymentRow, Final
<1>5. ASSUME NEW h \in Handler, NEW n \in notice, TakeNotice(h, n)
      PROVE  FinalInv'
  <2> DEFINE verdict == IF req[n.ref].kind = "withdrawal"
                        THEN payment[n.ref] ELSE n.status
  <2>1. verdict = payment[n.ref] /\ Final(verdict)
    BY DEF FinalInv
  <2>2. \A g \in Handler : handler'[g] =
          IF g = h THEN [Free EXCEPT !.pc = "decided", !.notice = n,
                                     !.verdict = verdict]
          ELSE handler[g]
    BY <1>5 DEF TakeNotice, TypeOK
  <2>3. handler'[h].verdict = verdict /\ handler'[h].notice = n
    BY <2>2 DEF Free
  <2>4. \A g \in Handler : handler'[g].pc # "free" =>
          Final(handler'[g].verdict) /\ handler'[g].verdict = payment'[Ref(g)']
    BY <1>5, <2>1, <2>2, <2>3 DEF TakeNotice, FinalInv, Ref
  <2>5. QED BY <1>5, <2>4 DEF TakeNotice, FinalInv, PaymentRow, Final
<1>6. ASSUME NEW h \in Handler, HandlerStep(h) PROVE FinalInv'
  <2>1. handler[h] \in Busy
    BY <1>6, BusyHandler
    DEF HandlerStep, HandleReject, HandleUpdate, HandleCommit, HandleEnqueue
  <2>2. Ref(h) \in Req BY <2>1 DEF Busy, Notice, Ref
  <2>3. \A g \in Handler :
          \/ handler'[g].pc = "free"
          \/ /\ handler[g].pc # "free"
             /\ handler'[g].verdict = handler[g].verdict
             /\ handler'[g].notice = handler[g].notice
    BY <1>6, <2>1
    DEF HandlerStep, HandleReject, HandleUpdate, HandleCommit, HandleEnqueue,
        TypeOK, Busy, Free
  <2>4. notice' \subseteq notice /\ UNCHANGED payment
    BY <1>6
    DEF HandlerStep, HandleReject, HandleUpdate, HandleCommit, HandleEnqueue,
        Answer
  <2>5. \/ transaction' = transaction
        \/ transaction' = SetStatus(Ref(h), "PERFORMED")
        \/ transaction' = SetStatus(Ref(h), "REJECTED") /\ payment[Ref(h)] = "dead"
    BY <1>6
    DEF HandlerStep, HandleReject, HandleUpdate, HandleCommit, HandleEnqueue,
        Succeeded, FinalInv, Final
  <2>6. \A t \in transaction' :
          \/ t \in transaction
          \/ PaymentRow(t) /\ t.status = "REJECTED" =>
               t.id \in Req /\ payment'[t.id] = "dead"
    BY <2>2, <2>4, <2>5, RestatusFinal DEF Status
  <2>7. QED BY <2>3, <2>4, <2>6, FinalKept
<1>7. CASE ApiCrash \/ WebhookCrash \/ UNCHANGED vars
  BY <1>7, FinalKept DEF ApiCrash, WebhookCrash, vars, Free
<1>8. QED
  BY <1>1, <1>2, <1>3, <1>4, <1>5, <1>6, <1>7
  DEF Next, ApiStep, ProviderInterim

-----------------------------------------------------------------------------
(***************************************************************************)
(* What the history shows of a payment is the status of its only row.      *)
(***************************************************************************)
ShownAs(s) == CASE s = "IN_PROGRESS" -> "pending"
                [] s = "PERFORMED"   -> "paid"
                [] s = "REJECTED"    -> "failed"

ShowsRows ==
  \A t \in transaction : PaymentRow(t) => Shown(t.id) = ShownAs(t.status)

LEMMA ShownRow == TypeOK /\ RowsInv => ShowsRows
<1> SUFFICES ASSUME TypeOK, RowsInv, NEW t \in transaction, PaymentRow(t)
             PROVE  Shown(t.id) = ShownAs(t.status)
  BY DEF ShowsRows
<1>1. RowsOf(t.id) = {t} /\ req[t.id].kind # "transfer"
  BY DEF RowsInv, RowsMatchRequests, PaymentRow
<1>2. (CHOOSE u \in RowsOf(t.id) : TRUE) = t
  BY <1>1
<1>3. QED BY <1>1, <1>2 DEF Shown, ShownAs

(* What a request shows whose payment has no row.                          *)
LEMMA ShownAbsent ==
  \A r \in Req : RowsOf(r) = {} \/ req[r].kind = "transfer" => Shown(r) = "absent"
BY DEF Shown

(* A payment moves as PaymentLifecycle allows, and no other payment moves.  *)
LEMMA OneMoves ==
  ASSUME NEW r \in Req,
         \A q \in Req : q # r => Shown(q)' = Shown(q),
         \/ Shown(r)' = Shown(r)
         \/ Shown(r) = "absent" /\ Shown(r)' = "pending"
         \/ Shown(r) = "pending" /\ Shown(r)' \in {"paid", "failed"}
  PROVE  [Lifecycle!Next]_history
<1>1. CASE Shown(r)' = Shown(r)
  BY <1>1 DEF history
<1>2. CASE Shown(r) = "absent" /\ Shown(r)' = "pending"
  <2>1. Lifecycle!Request(r) BY <1>2 DEF Lifecycle!Request, history
  <2>2. QED BY <2>1 DEF Lifecycle!Next
<1>3. CASE Shown(r) = "pending" /\ Shown(r)' \in {"paid", "failed"}
  <2>1. PICK outcome \in {"paid", "failed"} : Shown(r)' = outcome
    BY <1>3
  <2>2. Lifecycle!Settle(r, outcome) BY <1>3, <2>1 DEF Lifecycle!Settle, history
  <2>3. QED BY <2>2 DEF Lifecycle!Next
<1>4. QED BY <1>1, <1>2, <1>3

(* A step that leaves the rows alone shows nothing new: the requests that   *)
(* have rows are done.                                                     *)
LEMMA ShownKept ==
  ASSUME TypeOK, RowsInv, UNCHANGED transaction,
         \A r \in Req : req[r].pc = "done" => req'[r] = req[r]
  PROVE  [Lifecycle!Next]_history
<1>1. ASSUME NEW r \in Req PROVE Shown(r)' = Shown(r)
  <2>1. RowsOf(r)' = RowsOf(r) BY DEF RowsOf
  <2>2. CASE RowsOf(r) = {} BY <2>1, <2>2 DEF Shown
  <2>3. CASE RowsOf(r) # {}
    <3>1. req'[r] = req[r] BY <2>3 DEF RowsInv, RowsOfDone, RowsOf
    <3>2. QED BY <2>1, <3>1 DEF Shown
  <2>4. QED BY <2>2, <2>3
<1>2. QED BY <1>1 DEF history

(* New rows of one request show nothing of the others.                      *)
LEMMA OthersKept ==
  ASSUME TypeOK, NEW r \in Req, NEW q \in Req, q # r,
         \A u \in Row : u.id = q => (u \in transaction' <=> u \in transaction),
         transaction' \subseteq Row, req'[q] = req[q]
  PROVE  Shown(q)' = Shown(q)
<1>1. RowsOf(q)' = RowsOf(q) BY DEF RowsOf, TypeOK
<1>2. QED BY <1>1 DEF Shown

(* The update of a webhook moves the payment it names from pending, or      *)
(* changes nothing.                                                        *)
LEMMA RestatusShown ==
  ASSUME TypeOK, RowsInv, TypeOK', RowsInv', NEW ref \in Req,
         NEW s \in {"PERFORMED", "REJECTED"},
         transaction' = SetStatus(ref, s), UNCHANGED req,
         req[ref].kind # "transfer",
         \A t \in RowsOf(ref) : t.status \in {"IN_PROGRESS", s}
  PROVE  [Lifecycle!Next]_history
<1>1. ASSUME NEW q \in Req, q # ref PROVE Shown(q)' = Shown(q)
  <2>1. \A u \in Row : u.id = q => (u \in transaction' <=> u \in transaction)
    <3>1. ASSUME NEW u \in transaction', u.id = q PROVE u \in transaction
      BY <1>1, <3>1, SetStatusRow DEF TypeOK, Status
    <3>2. ASSUME NEW u \in transaction, u.id = q PROVE u \in transaction'
      BY <1>1, <3>2 DEF SetStatus
    <3>3. QED BY <3>1, <3>2
  <2>2. QED BY <1>1, <2>1, OthersKept DEF TypeOK
<1>2. CASE RowsOf(ref) = {}
  <2>1. RowsOf(ref)' = {}
    <3>1. ASSUME NEW u \in transaction', u.id = ref PROVE FALSE
      BY <1>2, <3>1, SetStatusRow DEF TypeOK, Status, RowsOf
    <3>2. QED BY <3>1 DEF RowsOf
  <2>2. Shown(ref)' = Shown(ref) BY <1>2, <2>1 DEF Shown
  <2>3. QED BY <1>1, <2>2, OneMoves
<1>3. CASE RowsOf(ref) # {}
  <2>1. PICK t \in transaction : t.id = ref BY <1>3 DEF RowsOf
  <2> DEFINE u == [t EXCEPT !.status = s]
  <2>2. u \in transaction' BY <2>1 DEF SetStatus
  <2>3. u.id = ref /\ u.status = s /\ u.type = t.type
    BY <2>1 DEF TypeOK, Row
  <2>4. PaymentRow(t) /\ PaymentRow(u)
    BY <2>1, <2>3 DEF RowsInv, RowsOfDone, PaymentRow, TypeOK, Row, Kind
  <2> HIDE DEF u
  <2>5. Shown(ref) = ShownAs(t.status)
    BY <2>1, <2>4, ShownRow DEF ShowsRows
  <2>6. ShowsRows'
    BY ShownRow, PTL
  <2>7. Shown(ref)' = ShownAs(s)
    BY <2>2, <2>3, <2>4, <2>6 DEF ShowsRows, PaymentRow
  <2>8. t.status \in {"IN_PROGRESS", s} BY <2>1 DEF RowsOf
  <2>9. QED BY <1>1, <2>5, <2>7, <2>8, OneMoves DEF ShownAs
<1>4. QED BY <1>2, <1>3

LEMMA LifecycleStep ==
  ASSUME "interim_notice" \notin Hazard
  PROVE  /\ TypeOK /\ LedgerInv /\ FinalInv /\ [Next]_vars
         /\ TypeOK' /\ LedgerInv'
         => [Lifecycle!Next]_history
<1> SUFFICES ASSUME TypeOK, LedgerInv, FinalInv, [Next]_vars, TypeOK', LedgerInv'
             PROVE  [Lifecycle!Next]_history
  OBVIOUS
<1>0. RowsInv /\ RowsInv' /\ ProviderInv
  BY DEF LedgerInv, RowsInv, ProviderInv
<1>1. ASSUME NEW r \in Req, SaveRow(r)
      PROVE  [Lifecycle!Next]_history
  <2>1. RowsOf(r) = {}
    BY <1>0, <1>1 DEF SaveRow, RowsInv, RowsOfDone, RowsOf
  <2> DEFINE a == IF IsDebit(r) THEN - req[r].amount ELSE req[r].amount
             u == NewRow(r, req[r].wallet, a, "IN_PROGRESS")
  <2>2. /\ transaction' = transaction \cup {u}
        /\ u.id = r /\ u.type = req[r].kind /\ u.status = "IN_PROGRESS"
    BY <1>1 DEF SaveRow, NewRow
  <2> HIDE DEF a, u
  <2>3. \A q \in Req : q # r => Shown(q)' = Shown(q)
    BY <1>1, <2>2, OthersKept DEF SaveRow, TypeOK
  <2>4. PaymentRow(u)
    BY <1>0, <1>1, <2>2
    DEF SaveRow, ProviderInv, PaymentRequested, PaymentRow
  <2>5. ShowsRows'
    BY <1>0, ShownRow, PTL
  <2>6. Shown(r)' = "pending"
    BY <2>2, <2>4, <2>5 DEF ShowsRows, ShownAs, PaymentRow
  <2>7. Shown(r) = "absent" BY <2>1, ShownAbsent
  <2>8. QED BY <2>3, <2>6, <2>7, OneMoves
<1>2. ASSUME NEW r \in Req, TransferInsert(r)
      PROVE  [Lifecycle!Next]_history
  <2>1. \A u \in transaction' \ transaction : u.id = r
    BY <1>2, BegunReq, TransferRowTypes DEF TransferInsert
  <2>2. transaction \subseteq transaction' /\ \A q \in Req : q # r => req'[q] = req[q]
    BY <1>2 DEF TransferInsert, TypeOK
  <2>3. \A q \in Req : q # r => Shown(q)' = Shown(q)
    BY <2>1, <2>2, OthersKept DEF TypeOK
  <2>4. req[r] \in Begun BY <1>2, BegunReq DEF TransferInsert
  <2>5. req[r].kind = "transfer" /\ req'[r].kind = "transfer"
    BY <1>2, <2>4 DEF TransferInsert, TypeOK, Begun
  <2>6. Shown(r) = "absent" /\ Shown(r)' = "absent"
    BY <2>5 DEF Shown
  <2>7. QED BY <2>3, <2>6, OneMoves
<1>3. ASSUME NEW h \in Handler, HandleReject(h)
      PROVE  [Lifecycle!Next]_history
  <2>1. Ref(h) \in Req
    BY <1>3, BusyHandler DEF HandleReject, Busy, Notice, Ref
  <2>2. payment[Ref(h)] = "dead"
    BY <1>3 DEF HandleReject, Succeeded, FinalInv, Final
  <2>3. req[Ref(h)].kind # "transfer"
    BY <1>0, <2>1, <2>2 DEF ProviderInv, PaymentRequested
  <2>4. \A t \in RowsOf(Ref(h)) : t.status \in {"IN_PROGRESS", "REJECTED"}
    BY <1>0, <2>2, <2>3
    DEF RowsInv, RowsOfDone, SettledBacked, PaymentRow, RowsOf, TypeOK, Row,
        Kind, Status
  <2>5. QED BY <1>0, <1>3, <2>1, <2>3, <2>4, RestatusShown DEF HandleReject
<1>4. ASSUME NEW h \in Handler, HandleCommit(h)
      PROVE  [Lifecycle!Next]_history
  <2>1. Ref(h) \in Req
    BY <1>4, BusyHandler DEF HandleCommit, Busy, Notice, Ref
  <2>2. payment[Ref(h)] = "done"
    BY <1>0, <1>4 DEF HandleCommit, ProviderInv, VerdictBacked
  <2>3. req[Ref(h)].kind # "transfer"
    BY <1>0, <2>1, <2>2 DEF ProviderInv, PaymentRequested
  <2>4. \A t \in RowsOf(Ref(h)) : t.status \in {"IN_PROGRESS", "PERFORMED"}
    BY <1>0, <2>2, <2>3
    DEF FinalInv, RowsInv, RowsOfDone, PaymentRow, RowsOf, TypeOK, Row, Kind,
        Status
  <2>5. CASE handler[h].hit
    BY <1>0, <1>4, <2>1, <2>3, <2>4, <2>5, RestatusShown DEF HandleCommit
  <2>6. CASE ~ handler[h].hit
    BY <1>0, <1>4, <2>6, ShownKept DEF HandleCommit
  <2>7. QED BY <2>5, <2>6
<1>5. ASSUME NEW r \in Req, NEW w \in Wallet, NEW a \in Amount,
             \/ DepositPay(r, w, a)
             \/ WithdrawalCheck(r, w, a)
             \/ \E to \in Wallet : TransferCheck(r, w, to, a)
      PROVE  [Lifecycle!Next]_history
  BY <1>0, <1>5, ShownKept
  DEF DepositPay, ProviderCall, WithdrawalCheck, TransferCheck, Begin, TypeOK
<1>6. ASSUME NEW r \in Req, NEW outcome \in {"done", "dead"},
             \/ WithdrawalPay(r) \/ Refuse(r)
             \/ ProviderInterim(r) \/ ProviderSettle(r, outcome)
      PROVE  [Lifecycle!Next]_history
  BY <1>0, <1>6, ShownKept
  DEF WithdrawalPay, ProviderCall, Refuse, ProviderInterim, ProviderSettle, TypeOK
<1>7. ASSUME NEW h \in Handler,
             \/ \E n \in notice : TakeNotice(h, n)
             \/ HandleUpdate(h) \/ HandleEnqueue(h)
      PROVE  [Lifecycle!Next]_history
  BY <1>0, <1>7, ShownKept DEF TakeNotice, HandleUpdate, HandleEnqueue
<1>8. CASE ApiCrash
  BY <1>0, <1>8, ShownKept DEF ApiCrash
<1>9. CASE WebhookCrash \/ UNCHANGED vars
  BY <1>0, <1>9, ShownKept DEF WebhookCrash, vars
<1>10. QED
  BY <1>1, <1>2, <1>3, <1>4, <1>5, <1>6, <1>7, <1>8, <1>9
  DEF Next, ApiStep, HandlerStep

(***************************************************************************)
(* As long as the provider reports final statuses only, the ledger keeps   *)
(* the promise of PaymentLifecycle whatever else the environment does.     *)
(***************************************************************************)
THEOREM LedgerKeepsLifecycle ==
  ASSUME "interim_notice" \notin Hazard
  PROVE  Spec => KeepsLifecycle
<1>1. Init => Lifecycle!Init /\ FinalInv
  BY DEF Init, Lifecycle!Init, history, Shown, RowsOf, FinalInv, Free
<1>2. TypeOK /\ LedgerInv /\ FinalInv /\ [Next]_vars => FinalInv'
  BY FinalStep
<1>3. /\ TypeOK /\ LedgerInv /\ FinalInv /\ [Next]_vars
      /\ TypeOK' /\ LedgerInv'
      => [Lifecycle!Next]_history
  BY LifecycleStep
<1>4. QED
  BY <1>1, <1>2, <1>3, TypeCorrect, LedgerInvariant, PTL
  DEF Spec, KeepsLifecycle, Lifecycle!Spec

-----------------------------------------------------------------------------
(***************************************************************************)
(* A handler only ever works on a payment the provider has, so the rows it *)
(* updates are those of a deposit or withdrawal, never of a transfer.      *)
(***************************************************************************)
HandlerRequested ==
  \A h \in Handler : handler[h].pc # "free" => payment[Ref(h)] # "none"

LEMMA HandlerRequestedStep ==
  TypeOK /\ ProviderInv /\ HandlerRequested /\ [Next]_vars => HandlerRequested'
<1> SUFFICES ASSUME TypeOK, ProviderInv, HandlerRequested, [Next]_vars
             PROVE  HandlerRequested'
  OBVIOUS
<1>0. \A h \in Handler : handler[h].pc # "free" => Ref(h) \in Req
  BY BusyHandler DEF Busy, Notice, Ref
<1>1. ASSUME UNCHANGED handler,
             \A r \in Req : payment[r] # "none" => payment'[r] # "none"
      PROVE  HandlerRequested'
  BY <1>0, <1>1 DEF HandlerRequested, Ref
<1>2. ASSUME NEW r \in Req, NEW w \in Wallet, NEW a \in Amount,
             \/ DepositPay(r, w, a)
             \/ WithdrawalCheck(r, w, a)
             \/ \E to \in Wallet : TransferCheck(r, w, to, a)
      PROVE  HandlerRequested'
  BY <1>1, <1>2
  DEF DepositPay, ProviderCall, WithdrawalCheck, TransferCheck, Begin, TypeOK
<1>3. ASSUME NEW r \in Req, ApiStep(r) \/ ProviderInterim(r)
      PROVE  HandlerRequested'
  BY <1>1, <1>3
  DEF ApiStep, WithdrawalPay, ProviderCall, Refuse, SaveRow, TransferInsert,
      ProviderInterim, TypeOK
<1>4. ASSUME NEW r \in Req, NEW outcome \in {"done", "dead"},
             ProviderSettle(r, outcome)
      PROVE  HandlerRequested'
  BY <1>1, <1>4 DEF ProviderSettle, TypeOK
<1>5. ASSUME NEW h \in Handler, NEW n \in notice, TakeNotice(h, n)
      PROVE  HandlerRequested'
  <2>1. payment[n.ref] # "none" BY DEF ProviderInv, NoticeBacked
  <2>2. \A g \in Handler :
          \/ g = h /\ handler'[g].notice = n
          \/ handler'[g] = handler[g]
    BY <1>5 DEF TakeNotice, TypeOK, Free
  <2>3. UNCHANGED payment BY <1>5 DEF TakeNotice
  <2>4. QED BY <2>1, <2>2, <2>3 DEF HandlerRequested, Ref
<1>6. ASSUME NEW h \in Handler, HandlerStep(h) PROVE HandlerRequested'
  <2>1. handler[h] \in Busy
    BY <1>6, BusyHandler
    DEF HandlerStep, HandleReject, HandleUpdate, HandleCommit, HandleEnqueue
  <2>2. \A g \in Handler :
          \/ handler'[g].pc = "free"
          \/ handler[g].pc # "free" /\ handler'[g].notice = handler[g].notice
    BY <1>6, <2>1
    DEF HandlerStep, HandleReject, HandleUpdate, HandleCommit, HandleEnqueue,
        TypeOK, Busy, Free
  <2>3. UNCHANGED payment
    BY <1>6
    DEF HandlerStep, HandleReject, HandleUpdate, HandleCommit, HandleEnqueue
  <2>4. QED BY <2>2, <2>3 DEF HandlerRequested, Ref
<1>7. CASE ApiCrash \/ WebhookCrash \/ UNCHANGED vars
  BY <1>1, <1>7 DEF ApiCrash, WebhookCrash, vars, Free, HandlerRequested
<1>8. QED
  BY <1>2, <1>3, <1>4, <1>5, <1>6, <1>7 DEF Next

(* A row differs from itself in nothing but its status.                     *)
LEMMA RowsSame == transaction \subseteq Row => \A t \in transaction : SameButStatus(t, t)
<1> SUFFICES ASSUME transaction \subseteq Row, NEW t \in transaction
             PROVE  SameButStatus(t, t)
  OBVIOUS
<1>1. [t EXCEPT !.status = t.status] = t /\ t.status \in Status
  BY DEF Row
<1>2. QED BY <1>1 DEF SameButStatus

LEMMA RestatusAppends ==
  ASSUME TypeOK, NEW ref, NEW s \in Status, transaction' = SetStatus(ref, s),
         \A t \in transaction : t.id = ref => PaymentRow(t)
  PROVE  Appended
<1>1. ASSUME NEW t \in transaction
      PROVE  \E u \in transaction' :
               SameButStatus(t, u) /\ (PaymentRow(t) \/ u = t)
  <2>1. CASE t.id = ref
    <3>1. [t EXCEPT !.status = s] \in transaction' BY <2>1 DEF SetStatus
    <3>2. SameButStatus(t, [t EXCEPT !.status = s]) BY DEF SameButStatus
    <3>3. QED BY <2>1, <3>1, <3>2
  <2>2. CASE t.id # ref
    <3>1. t \in transaction' BY <2>2 DEF SetStatus
    <3>2. QED BY <3>1, RowsSame DEF TypeOK
  <2>3. QED BY <2>1, <2>2
<1>2. ASSUME NEW u \in transaction'
      PROVE  \E t \in transaction : SameButStatus(t, u)
  <2>1. PICK t \in transaction :
               u = IF t.id = ref THEN [t EXCEPT !.status = s] ELSE t
    BY SetStatusRow DEF TypeOK
  <2>2. SameButStatus(t, u)
    BY <2>1, RowsSame DEF SameButStatus, TypeOK
  <2>3. QED BY <2>2
<1>3. QED BY <1>1, <1>2 DEF Appended

LEMMA AppendStep ==
  TypeOK /\ ProviderInv /\ RowsInv /\ HandlerRequested /\ [Next]_vars
    => [Appended]_transaction
<1> SUFFICES ASSUME TypeOK, ProviderInv, RowsInv, HandlerRequested, [Next]_vars
             PROVE  [Appended]_transaction
  OBVIOUS
<1>0. \A t \in transaction : SameButStatus(t, t)
  BY RowsSame DEF TypeOK
<1>1. ASSUME NEW r \in Req, SaveRow(r) PROVE Appended
  <2>1. req[r].kind \in {"deposit", "withdrawal"}
    BY <1>1 DEF SaveRow, ProviderInv, PaymentRequested
  <2>2. /\ transaction \subseteq transaction'
        /\ \A u \in transaction' \ transaction :
             PaymentRow(u) /\ u.status = "IN_PROGRESS"
    BY <1>1, <2>1 DEF SaveRow, NewRow, PaymentRow
  <2>3. QED BY <1>0, <2>2 DEF Appended
<1>2. ASSUME NEW r \in Req, TransferInsert(r) PROVE Appended
  <2> DEFINE debit  == PaidRow(r)
             credit == ReceivedRow(r)
  <2>1. transaction' = transaction \cup {debit, credit}
    BY <1>2 DEF TransferInsert
  <2>2. req[r] \in Begun /\ req[r].kind = "transfer"
    BY <1>2, BegunReq DEF TransferInsert
  <2>3. /\ \A u \in {debit, credit} : u.type = "transfer" /\ u.status = "PERFORMED"
        /\ debit.id = credit.id /\ debit # credit
        /\ debit.affectedAmount = - req[r].amount
        /\ credit.affectedAmount = req[r].amount - Fee
    BY <2>2, TransferRowTypes
  <2>4. /\ credit.affectedAmount + debit.affectedAmount = - Fee
        /\ debit.affectedAmount + credit.affectedAmount = - Fee
    BY <2>2, <2>3, AmountIsInt, LedgerAssumption
  <2> HIDE DEF debit, credit
  <2>5. QED BY <1>0, <2>1, <2>3, <2>4 DEF Appended
<1>3. ASSUME NEW h \in Handler, HandleReject(h) \/ HandleCommit(h)
      PROVE  [Appended]_transaction
  <2>1. Ref(h) \in Req /\ payment[Ref(h)] # "none"
    BY <1>3, BusyHandler
    DEF HandleReject, HandleCommit, Busy, Notice, Ref, HandlerRequested
  <2>2. \A t \in transaction : t.id = Ref(h) => PaymentRow(t)
    BY <2>1 DEF ProviderInv, PaymentRequested, RowsInv, RowsOfDone, PaymentRow
  <2>3. \/ UNCHANGED transaction
        \/ \E s \in Status : transaction' = SetStatus(Ref(h), s)
    BY <1>3 DEF HandleReject, HandleCommit, Status
  <2>4. QED BY <2>2, <2>3, RestatusAppends
<1>4. UNCHANGED transaction \/ (\E r \in Req : SaveRow(r) \/ TransferInsert(r))
      \/ (\E h \in Handler : HandleReject(h) \/ HandleCommit(h))
  BY DEF Next, ApiStep, HandlerStep, DepositPay, WithdrawalCheck, TransferCheck,
         WithdrawalPay, Refuse, ApiCrash, ProviderSettle, ProviderInterim,
         TakeNotice, HandleUpdate, HandleEnqueue, WebhookCrash, vars
<1>5. QED BY <1>1, <1>2, <1>3, <1>4

(***************************************************************************)
(* History is append-only under every hazard: a webhook changes the status *)
(* of a payment's row and nothing else, and a transfer enters as both its  *)
(* sides at once.                                                          *)
(***************************************************************************)
THEOREM HistoryIsAppendOnly == Spec => AppendOnly
<1>1. Init => HandlerRequested
  BY DEF Init, HandlerRequested, Free
<1>2. LedgerInv => ProviderInv /\ RowsInv
  BY InvParts
<1>3. TypeOK /\ ProviderInv /\ HandlerRequested /\ [Next]_vars
        => HandlerRequested'
  BY HandlerRequestedStep
<1>4. TypeOK /\ ProviderInv /\ RowsInv /\ HandlerRequested /\ [Next]_vars
        => [Appended]_transaction
  BY AppendStep
<1>5. QED
  BY <1>1, <1>2, <1>3, <1>4, TypeCorrect, LedgerInvariant, PTL
  DEF Spec, AppendOnly

-----------------------------------------------------------------------------
(***************************************************************************)
(* Events.  If every answer of the provider arrives, no process dies and   *)
(* the provider waits for the row, a handler finds the row of its payment, *)
(* its UPDATE hits it, and what it reads back is that row.                 *)
(***************************************************************************)
HasRow(r) == RowsOf(r) # {}

EventInv ==
  /\ \A r \in Req : payment[r] # "none" =>
       req[r].pc = "saving" \/ (req[r].pc = "done" /\ HasRow(r))
  /\ \A n \in notice : HasRow(n.ref)
  /\ \A h \in Handler :
       /\ handler[h].pc # "free" => HasRow(Ref(h))
       /\ handler[h].pc = "updated" => handler[h].hit
       /\ handler[h].pc = "enqueue" => handler[h].snapshot = "PERFORMED"
  /\ EventCarriesSettledRow

(* Rows are added and change their status; none goes away.                  *)
LEMMA RowsStay ==
  ASSUME TypeOK,
         \/ transaction \subseteq transaction'
         \/ \E ref \in Req, s \in Status : transaction' = SetStatus(ref, s)
  PROVE  \A r : HasRow(r) => HasRow(r)'
<1> SUFFICES ASSUME NEW r, NEW t \in transaction, t.id = r
             PROVE  \E u \in transaction' : u.id = r
  BY DEF HasRow, RowsOf
<1>1. CASE transaction \subseteq transaction'
  BY <1>1
<1>2. ASSUME NEW ref \in Req, NEW s \in Status, transaction' = SetStatus(ref, s)
      PROVE  \E u \in transaction' : u.id = r
  <2>1. [t EXCEPT !.status = s].id = t.id
    BY DEF TypeOK, Row
  <2> QED
    BY <1>2, <2>1 DEF SetStatus
<1> QED
  BY <1>1, <1>2

(* A step of an api request or of the provider: handlers look on.           *)
LEMMA EventApi ==
  ASSUME TypeOK, EventInv, UNCHANGED <<handler, outbox>>,
         transaction \subseteq transaction',
         \A n \in notice' : n \in notice \/ HasRow(n.ref),
         \A r \in Req : payment'[r] # "none" =>
           \/ req'[r].pc = "saving"
           \/ req'[r].pc = "done" /\ (HasRow(r) \/ HasRow(r)')
  PROVE  EventInv'
<1>1. \A r : HasRow(r) => HasRow(r)'
  BY RowsStay
<1>2. \A h \in Handler : handler[h].pc # "free" => HasRow(Ref(h))'
  <2> SUFFICES ASSUME NEW h \in Handler, handler[h].pc # "free"
               PROVE  HasRow(Ref(h))'
    OBVIOUS
  <2>1. Ref(h)' = Ref(h)
    BY DEF Ref
  <2> QED
    BY <1>1, <2>1 DEF EventInv, HasRow, RowsOf
<1> QED
  BY <1>1, <1>2 DEF EventInv, EventCarriesSettledRow

(* A step of one handler: the api looks on.                                 *)
LEMMA EventWebhook ==
  ASSUME TypeOK, EventInv, NEW h \in Handler, UNCHANGED <<req, payment>>,
         \/ UNCHANGED transaction
         \/ \E ref \in Req, s \in Status : transaction' = SetStatus(ref, s),
         notice' \subseteq notice,
         \A g \in Handler \ {h} : handler'[g] = handler[g],
         \/ handler'[h].pc = "free"
         \/ /\ HasRow(handler'[h].notice.ref)
            /\ handler'[h].pc = "updated" => handler'[h].hit
            /\ handler'[h].pc = "enqueue" => handler'[h].snapshot = "PERFORMED",
         \A e \in outbox' : e \in outbox \/ e.snapshot = "PERFORMED"
  PROVE  EventInv'
<1>1. \A r : HasRow(r) => HasRow(r)'
  BY RowsStay
<1>2. ASSUME NEW g \in Handler, handler'[g].pc # "free"
      PROVE  HasRow(Ref(g))'
  <2>1. HasRow(handler'[g].notice.ref)
    BY <1>2 DEF EventInv, Ref
  <2>2. \E t \in transaction' : t.id = handler'[g].notice.ref
    BY <1>1, <2>1 DEF HasRow, RowsOf
  <2> QED
    BY <2>2 DEF HasRow, RowsOf, Ref
<1>3. \A g \in Handler :
        /\ handler'[g].pc = "updated" => handler'[g].hit
        /\ handler'[g].pc = "enqueue" => handler'[g].snapshot = "PERFORMED"
  BY DEF EventInv
<1> QED
  BY <1>1, <1>2, <1>3 DEF EventInv, EventCarriesSettledRow

Attentive == {"crash", "lost_answer", "early_notice"} \cap Hazard = {}

LEMMA EventStep ==
  ASSUME Attentive
  PROVE  TypeOK /\ LedgerInv /\ EventInv /\ [Next]_vars => EventInv'
<1> SUFFICES ASSUME TypeOK, LedgerInv, EventInv, [Next]_vars PROVE EventInv'
  OBVIOUS
<1>0. "crash" \notin Hazard /\ "lost_answer" \notin Hazard
      /\ "early_notice" \notin Hazard
  BY DEF Attentive
<1>1. ASSUME NEW r \in Req, NEW w \in Wallet, NEW a \in Amount,
             \/ DepositPay(r, w, a)
             \/ WithdrawalCheck(r, w, a)
             \/ \E to \in Wallet : TransferCheck(r, w, to, a)
      PROVE  EventInv'
  <2>1. /\ \A q \in Req \ {r} : req'[q] = req[q] /\ payment'[q] = payment[q]
        /\ payment'[r] = payment[r] \/ req'[r].pc = "saving"
        /\ req[r].pc = "idle"
        /\ UNCHANGED <<transaction, notice, handler, outbox>>
    BY <1>0, <1>1
    DEF DepositPay, ProviderCall, WithdrawalCheck, TransferCheck, Begin, TypeOK,
        Idle
  <2> QED
    BY <2>1, EventApi DEF EventInv
<1>2. ASSUME NEW r \in Req, WithdrawalPay(r) \/ Refuse(r) PROVE EventInv'
  <2>1. /\ \A q \in Req \ {r} : req'[q] = req[q] /\ payment'[q] = payment[q]
        /\ payment'[r] = payment[r] \/ req'[r].pc = "saving"
        /\ req[r].pc = "checked"
        /\ UNCHANGED <<transaction, notice, handler, outbox>>
    <3>1. req[r] \in Begun
      BY <1>2, BegunReq DEF WithdrawalPay, Refuse
    <3> QED
      BY <1>0, <1>2, <3>1 DEF WithdrawalPay, ProviderCall, Refuse, TypeOK, Begun
  <2> QED
    BY <2>1, EventApi DEF EventInv
<1>3. ASSUME NEW r \in Req, SaveRow(r) \/ TransferInsert(r) PROVE EventInv'
  <2>1. /\ \A q \in Req \ {r} : req'[q] = req[q]
        /\ UNCHANGED <<payment, notice, handler, outbox>>
        /\ req'[r].pc = "done"
    <3>1. req[r] \in Begun
      BY <1>3, BegunReq DEF SaveRow, TransferInsert
    <3> QED
      BY <1>3, <3>1 DEF SaveRow, TransferInsert, TypeOK, Begun
  <2>2. transaction \subseteq transaction' /\ HasRow(r)'
    <3>1. \A w, a, s : NewRow(r, w, a, s).id = r
      BY DEF NewRow
    <3>2. /\ transaction \subseteq transaction'
          /\ \E w, a, s : NewRow(r, w, a, s) \in transaction'
      BY <1>3 DEF SaveRow, TransferInsert, PaidRow
    <3> QED
      BY <3>1, <3>2 DEF HasRow, RowsOf
  <2> QED
    BY <2>1, <2>2, EventApi DEF EventInv
<1>4. ASSUME NEW r \in Req,
             ProviderInterim(r)
               \/ \E outcome \in {"done", "dead"} : ProviderSettle(r, outcome)
      PROVE  EventInv'
  <2>1. /\ \A q \in Req : payment'[q] # "none" => payment[q] # "none"
        /\ \A n \in notice' : n \in notice \/ n.ref = r
        /\ payment[r] = "open" /\ req[r].pc # "saving"
        /\ UNCHANGED <<transaction, req, handler, outbox>>
    BY <1>0, <1>4 DEF ProviderInterim, ProviderSettle, MayNotify, TypeOK
  <2>2. HasRow(r)
    BY <2>1 DEF EventInv
  <2> QED
    BY <2>1, <2>2, EventApi DEF EventInv
<1>5. ASSUME NEW h \in Handler, NEW n \in notice, TakeNotice(h, n)
      PROVE  EventInv'
  <2>1. /\ handler'[h].notice = n /\ handler'[h].pc = "decided"
        /\ \A g \in Handler \ {h} : handler'[g] = handler[g]
        /\ UNCHANGED <<transaction, req, payment, notice, outbox>>
    BY <1>5 DEF TakeNotice, TypeOK, Free
  <2>2. HasRow(n.ref)
    BY DEF EventInv
  <2> QED
    BY <2>1, <2>2, EventWebhook
<1>6. ASSUME NEW h \in Handler, HandlerStep(h) PROVE EventInv'
  <2>1. /\ handler[h] \in Busy /\ Ref(h) \in Req /\ HasRow(Ref(h))
    BY <1>6, BusyHandler
    DEF HandlerStep, HandleReject, HandleUpdate, HandleCommit, HandleEnqueue,
        EventInv, Busy, Notice, Ref
  <2>2. /\ \A g \in Handler \ {h} : handler'[g] = handler[g]
        /\ UNCHANGED <<req, payment>>
        /\ notice' \subseteq notice
        /\ \/ UNCHANGED transaction
           \/ \E s \in Status : transaction' = SetStatus(Ref(h), s)
    BY <1>6
    DEF HandlerStep, HandleReject, HandleUpdate, HandleCommit, HandleEnqueue,
        Answer, TypeOK, Status
  <2>3. \/ handler'[h].pc = "free"
        \/ /\ handler'[h].notice = handler[h].notice
           /\ handler'[h].pc = "updated" => handler'[h].hit
           /\ handler'[h].pc = "enqueue" => handler'[h].snapshot = "PERFORMED"
    <3>1. CASE HandleReject(h) \/ HandleEnqueue(h)
      BY <3>1 DEF HandleReject, HandleEnqueue, Free, TypeOK
    <3>2. CASE HandleUpdate(h)
      <4>1. RowsOf(Ref(h)) # {}
        BY <2>1 DEF HasRow
      <4>2. handler' = [handler EXCEPT ![h].pc = "updated", ![h].hit = TRUE]
        BY <3>2, <4>1 DEF HandleUpdate
      <4> QED
        BY <2>1, <4>2 DEF TypeOK, Busy
    <3>3. CASE HandleCommit(h)
      <4>1. Snapshot(h) = "PERFORMED"
        BY <3>3 DEF HandleCommit, EventInv, Snapshot
      <4>2. \/ handler' = [handler EXCEPT ![h] = Free]
            \/ handler' = [handler EXCEPT ![h].pc = "enqueue",
                                          ![h].snapshot = "PERFORMED"]
        BY <3>3, <4>1 DEF HandleCommit
      <4> QED
        BY <2>1, <4>2 DEF TypeOK, Busy, Free
    <3> QED
      BY <1>6, <3>1, <3>2, <3>3 DEF HandlerStep
  <2>4. \A e \in outbox' : e \in outbox \/ e.snapshot = "PERFORMED"
    <3>1. HandleEnqueue(h) => handler[h].snapshot = "PERFORMED"
      BY DEF HandleEnqueue, EventInv
    <3>2. HandleCommit(h) => Snapshot(h) = "PERFORMED"
      BY DEF HandleCommit, EventInv, Snapshot
    <3> QED
      BY <1>6, <3>1, <3>2
      DEF HandlerStep, HandleReject, HandleUpdate, HandleCommit, HandleEnqueue,
          Enqueue
  <2>5. HasRow(handler[h].notice.ref)
    BY <2>1 DEF Ref
  <2> QED
    BY <2>1, <2>2, <2>3, <2>4, <2>5, EventWebhook
<1>7. CASE UNCHANGED vars
  <2>1. UNCHANGED <<transaction, req, payment, notice, handler, outbox>>
    BY <1>7 DEF vars
  <2> QED
    BY <2>1, EventApi DEF EventInv
<1>8. ~ ApiCrash /\ ~ WebhookCrash
  BY <1>0 DEF ApiCrash, WebhookCrash
<1> QED
  BY <1>1, <1>2, <1>3, <1>4, <1>5, <1>6, <1>7, <1>8 DEF Next, ApiStep

(***************************************************************************)
(* Where nothing dies or gets lost and no webhook comes before the row,    *)
(* the event of a settled payment carries that payment's row, settled,     *)
(* whatever notices repeat, overtake each other or are handled at once.    *)
(***************************************************************************)
THEOREM EventsCarryTheRow ==
  ASSUME Attentive
  PROVE  Spec => []EventCarriesSettledRow
<1>1. Init => EventInv
  BY DEF Init, EventInv, EventCarriesSettledRow, Free
<1>2. TypeOK /\ LedgerInv /\ EventInv /\ [Next]_vars => EventInv'
  BY EventStep
<1>3. EventInv => EventCarriesSettledRow
  BY DEF EventInv
<1>4. QED
  BY <1>1, <1>2, <1>3, TypeCorrect, LedgerInvariant, PTL DEF Spec

-----------------------------------------------------------------------------
(* Announcements.                                                          *)

InHand(r) == \E h \in Handler : handler[h].pc = "enqueue" /\ Ref(h) = r

Voiced(r) == (\E e \in outbox : e.ref = r) \/ InHand(r)

LEMMA AnnouncedIsVoiced ==
  Announced <=> \A t \in transaction :
                  PaymentRow(t) /\ t.status = "PERFORMED" => Voiced(t.id)
BY DEF Announced, Voiced, InHand, Active

(* What is voiced stays so, and a row that turns PERFORMED is.              *)
LEMMA VoicedStep ==
  ASSUME Announced,
         \A r : Voiced(r) => Voiced(r)',
         \A u \in transaction' : PaymentRow(u) /\ u.status = "PERFORMED" =>
           \/ Voiced(u.id)'
           \/ \E t \in transaction : /\ PaymentRow(t) /\ t.status = "PERFORMED"
                                     /\ t.id = u.id
  PROVE  Announced'
<1>1. \A u \in transaction' :
        PaymentRow(u) /\ u.status = "PERFORMED" => Voiced(u.id)'
  BY AnnouncedIsVoiced
<1> QED
  BY <1>1 DEF Announced, Voiced, InHand, Active, PaymentRow

LEMMA AnnounceStep ==
  ASSUME "crash" \notin Hazard
  PROVE  TypeOK /\ LedgerInv /\ Announced /\ [Next]_vars => Announced'
<1> SUFFICES ASSUME TypeOK, LedgerInv, Announced, [Next]_vars PROVE Announced'
  OBVIOUS
<1>1. ASSUME UNCHANGED <<handler, outbox>>,
             \A u \in transaction' \ transaction :
               ~ (PaymentRow(u) /\ u.status = "PERFORMED")
      PROVE  Announced'
  <2>1. \A r : Voiced(r) => Voiced(r)'
    BY <1>1 DEF Voiced, InHand, Ref
  <2> QED
    BY <1>1, <2>1, VoicedStep
<1>2. ASSUME NEW r \in Req, SaveRow(r) \/ TransferInsert(r) PROVE Announced'
  BY <1>1, <1>2, BegunReq, TransferRowTypes
  DEF SaveRow, TransferInsert, NewRow, PaymentRow
<1>3. ASSUME NEW h \in Handler, NEW n \in notice, TakeNotice(h, n)
      PROVE  Announced'
  <2>1. /\ handler[h].pc = "free"
        /\ \A g \in Handler \ {h} : handler'[g] = handler[g]
        /\ UNCHANGED <<transaction, outbox>>
    BY <1>3 DEF TakeNotice, TypeOK
  <2>2. \A r : Voiced(r) => Voiced(r)'
    BY <2>1 DEF Voiced, InHand, Ref
  <2> QED
    BY <2>1, <2>2, VoicedStep
<1>4. ASSUME NEW h \in Handler, HandleUpdate(h) \/ HandleReject(h)
      PROVE  Announced'
  <2>1. /\ handler[h].pc = "decided"
        /\ \A g \in Handler \ {h} : handler'[g] = handler[g]
        /\ UNCHANGED outbox
    BY <1>4 DEF HandleUpdate, HandleReject, TypeOK
  <2>2. \A r : Voiced(r) => Voiced(r)'
    BY <2>1 DEF Voiced, InHand, Ref
  <2>3. ASSUME NEW u \in transaction', u.status = "PERFORMED"
        PROVE  u \in transaction
    BY <1>4, <2>3, SetStatusRow
    DEF HandleUpdate, HandleReject, TypeOK, Status
  <2> QED
    BY <2>2, <2>3, VoicedStep
<1>5. ASSUME NEW h \in Handler, HandleCommit(h) PROVE Announced'
  <2>0. PICK ref : ref = Ref(h)
    OBVIOUS
  <2>1. /\ handler[h].pc = "updated" /\ handler[h] \in Busy
        /\ \A g \in Handler \ {h} : handler'[g] = handler[g]
    BY <1>5, BusyHandler DEF HandleCommit, TypeOK
  <2>2. outbox \subseteq outbox' /\ Voiced(ref)'
    <3>1. CASE Enqueue(h, Snapshot(h))
      <4>1. outbox \subseteq outbox' /\ \E e \in outbox' : e.ref = ref
        <5> DEFINE event == [ref |-> Ref(h), snapshot |-> Snapshot(h)]
        <5>1. outbox' = outbox \cup {event}
          BY <3>1 DEF Enqueue
        <5>2. event.ref = ref
          BY <2>0
        <5> HIDE DEF event
        <5> QED
          BY <5>1, <5>2
      <4> QED
        BY <4>1 DEF Voiced
    <3>2. CASE /\ handler' = [handler EXCEPT ![h].pc = "enqueue",
                                             ![h].snapshot = Snapshot(h)]
               /\ UNCHANGED outbox
      <4>1. handler'[h].pc = "enqueue" /\ handler'[h].notice = handler[h].notice
        BY <2>1, <3>2 DEF TypeOK, Busy
      <4>2. InHand(ref)'
        BY <2>0, <4>1 DEF InHand, Ref
      <4> QED
        BY <3>2, <4>2 DEF Voiced
    <3> QED
      BY <1>5, <3>1, <3>2 DEF HandleCommit
  <2>3. \A r : Voiced(r) => Voiced(r)'
    BY <2>1, <2>2 DEF Voiced, InHand, Ref
  <2>4. ASSUME NEW u \in transaction', PaymentRow(u), u.status = "PERFORMED"
        PROVE  \/ u.id = ref
               \/ \E t \in transaction : /\ PaymentRow(t) /\ t.status = "PERFORMED"
                                         /\ t.id = u.id
    <3>1. CASE UNCHANGED transaction
      BY <2>4, <3>1
    <3>2. CASE transaction' = SetStatus(Ref(h), "PERFORMED")
      <4>1. PICK t \in transaction :
                   /\ u.id = t.id /\ u.type = t.type
                   /\ u.status = IF t.id = Ref(h) THEN "PERFORMED" ELSE t.status
        BY <3>2, SetStatusRow DEF TypeOK, Status
      <4> QED
        BY <2>0, <2>4, <4>1 DEF PaymentRow
    <3> QED
      BY <1>5, <3>1, <3>2 DEF HandleCommit
  <2> QED
    BY <2>2, <2>3, <2>4, VoicedStep
<1>6. ASSUME NEW h \in Handler, HandleEnqueue(h) PROVE Announced'
  <2>1. /\ \A g \in Handler \ {h} : handler'[g] = handler[g]
        /\ outbox \subseteq outbox' /\ UNCHANGED transaction
        /\ [ref |-> Ref(h), snapshot |-> handler[h].snapshot] \in outbox'
    BY <1>6 DEF HandleEnqueue, Enqueue, TypeOK
  <2>2. \A r : Voiced(r) => Voiced(r)'
    BY <2>1 DEF Voiced, InHand, Ref
  <2> QED
    BY <2>1, <2>2, VoicedStep
<1>7. ~ WebhookCrash
  BY DEF WebhookCrash
<1>8. ASSUME UNCHANGED <<transaction, handler, outbox>> PROVE Announced'
  BY <1>1, <1>8
<1>9. \/ UNCHANGED <<transaction, handler, outbox>>
      \/ \E r \in Req : SaveRow(r) \/ TransferInsert(r)
      \/ \E h \in Handler, n \in notice : TakeNotice(h, n)
      \/ \E h \in Handler : HandlerStep(h)
  BY <1>7
  DEF Next, ApiStep, DepositPay, WithdrawalCheck, TransferCheck, WithdrawalPay,
      Refuse, ApiCrash, ProviderSettle, ProviderInterim, vars
<1> QED
  BY <1>2, <1>3, <1>4, <1>5, <1>6, <1>8, <1>9 DEF HandlerStep

(***************************************************************************)
(* While the webhook process lives, every payment that is PERFORMED has    *)
(* its event in the outbox or about to be: under lost answers, early,      *)
(* interim and reordered notices, and any number of handlers.              *)
(***************************************************************************)
THEOREM SettledIsAnnounced ==
  ASSUME "crash" \notin Hazard
  PROVE  Spec => []Announced
<1>1. Init => Announced
  BY DEF Init, Announced
<1>2. TypeOK /\ LedgerInv /\ Announced /\ [Next]_vars => Announced'
  BY AnnounceStep
<1>3. QED
  BY <1>1, <1>2, TypeCorrect, LedgerInvariant, PTL DEF Spec
=============================================================================
