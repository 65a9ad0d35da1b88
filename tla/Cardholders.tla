----------------------------- MODULE Cardholders -----------------------------
(***************************************************************************)
(* A completed user becomes a cardholder: the consumer registers the user  *)
(* at Bridgecard (handleUserComplete), Bridgecard verifies the cardholder  *)
(* and notifies the webhook application, which finds the user by the       *)
(* cardholder's id, and createCard and the dashboard ask the row for both. *)
(*                                                                         *)
(* The update that should store the id names the user by uuid where the    *)
(* table has ids, and throws, so whoever operates the system stores it by  *)
(* hand, sooner or later, perhaps after a second registration.             *)
(***************************************************************************)
CONSTANTS
  Customer,   \* the users whose user.complete event is committed
  Holder,     \* the cardholders the provider may register
  NoHolder,
  NoCustomer

ASSUME CardholdersAssumption == NoHolder \notin Holder /\ NoCustomer \notin Customer

VARIABLES
  complete,       \* delivery of the user.complete event of each user
  holder,         \* the provider's cardholders
  hook,           \* delivery of cardholder_verification.successful
  cardholderId,   \* columns of the table user
  cardholderVerified,
  heard           \* ids a notification found in a row since they were stored there

cardholderVars ==
  <<complete, holder, hook, cardholderId, cardholderVerified, heard>>

NotRegistered == [state |-> "none", customer |-> NoCustomer]

CardholdersTypeOK ==
  /\ complete \in [Customer -> {"pending", "consumed"}]
  /\ holder \in [Holder -> {NotRegistered} \cup
                   [state : {"registered", "verified", "rejected"}, customer : Customer]]
  /\ hook \in [Holder -> {"none", "pending", "answered"}]
  /\ cardholderId \in [Customer -> Holder \cup {NoHolder}]
  /\ cardholderVerified \in [Customer -> BOOLEAN]
  /\ heard \in [Customer -> SUBSET Holder]

CardholdersInit ==
  /\ complete = [u \in Customer |-> "pending"]
  /\ holder = [h \in Holder |-> NotRegistered]
  /\ hook = [h \in Holder |-> "none"]
  /\ cardholderId = [u \in Customer |-> NoHolder]
  /\ cardholderVerified = [u \in Customer |-> FALSE]
  /\ heard = [u \in Customer |-> {}]

-----------------------------------------------------------------------------
\* handleUserComplete: the provider registers the user; the update throws, is
\* logged and the message consumed, unless the consumer dies before that.
Register(u, h, outcome) ==
  /\ complete[u] = "pending" /\ holder[h] = NotRegistered
  /\ holder' = [holder EXCEPT ![h] = [state |-> "registered", customer |-> u]]
  /\ complete' = [complete EXCEPT ![u] = outcome]
  /\ UNCHANGED <<hook, cardholderId, cardholderVerified, heard>>

\* No profile, no country, or the provider refuses.
RegisterFails(u) ==
  /\ complete[u] = "pending"
  /\ complete' = [complete EXCEPT ![u] = "consumed"]
  /\ UNCHANGED <<holder, hook, cardholderId, cardholderVerified, heard>>

\* The offset of the message was not committed.
CompleteAgain(u) ==
  /\ complete[u] = "consumed"
  /\ complete' = [complete EXCEPT ![u] = "pending"]
  /\ UNCHANGED <<holder, hook, cardholderId, cardholderVerified, heard>>

\* By hand.  The flag of an earlier id stays.
StoreId(u, h) ==
  /\ holder[h].customer = u /\ cardholderId[u] # h
  /\ cardholderId' = [cardholderId EXCEPT ![u] = h]
  /\ heard' = [heard EXCEPT ![u] = @ \ {h}]
  /\ UNCHANGED <<complete, holder, hook, cardholderVerified>>

-----------------------------------------------------------------------------
\* The provider's verdict, and the notification of a good one.
Verify(h) ==
  /\ holder[h].state = "registered"
  /\ \/ /\ holder' = [holder EXCEPT ![h].state = "verified"]
        /\ hook' = [hook EXCEPT ![h] = "pending"]
     \/ /\ holder' = [holder EXCEPT ![h].state = "rejected"]
        /\ UNCHANGED hook
  /\ UNCHANGED <<complete, cardholderId, cardholderVerified, heard>>

\* Mutant: a notification is taken to mean its registered user.
RowsOfHolder(h) == {u \in Customer : holder[h].customer = u}

RowsWith(h) == {u \in Customer : cardholderId[u] = h}

\* handleBridgecardWebhookEvent: an update of no row is answered as well as one
\* of a row; a notification whose answer is lost comes again.
Verified(h, answer) ==
  /\ hook[h] = "pending"
  /\ cardholderVerified' =
       [u \in Customer |-> cardholderVerified[u] \/ u \in RowsWith(h)]
  /\ heard' = [u \in Customer |->
                 IF cardholderId[u] = h THEN heard[u] \cup {h} ELSE heard[u]]
  /\ hook' = [hook EXCEPT ![h] = answer]
  /\ UNCHANGED <<complete, holder, cardholderId>>

-----------------------------------------------------------------------------
CardholdersNext ==
  \/ \E u \in Customer :
       \/ RegisterFails(u) \/ CompleteAgain(u)
       \/ \E h \in Holder :
            \/ StoreId(u, h)
            \/ \E outcome \in {"pending", "consumed"} : Register(u, h, outcome)
  \/ \E h \in Holder :
       \/ Verify(h)
       \/ \E answer \in {"pending", "answered"} : Verified(h, answer)

CardholdersSpec == CardholdersInit /\ [][CardholdersNext]_cardholderVars

-----------------------------------------------------------------------------
\* The guard of createCard and of the cards on the dashboard.
MayHaveCards(u) == cardholderId[u] # NoHolder /\ cardholderVerified[u]

(***************************************************************************)
(* Who may have cards is a cardholder the provider verified, and each      *)
(* verification counts that came after its id was stored; one that came    *)
(* before found no row and is lost for good.  An id that replaces a        *)
(* verified one passes as verified although nothing was heard of it.       *)
(***************************************************************************)
VerifiedIsVerified ==
  /\ CardholdersTypeOK
  /\ \A u \in Customer :
       /\ cardholderVerified[u] => \E h \in Holder :
            holder[h] = [state |-> "verified", customer |-> u]
       /\ cardholderId[u] \in heard[u] => MayHaveCards(u)
       /\ MayHaveCards(u) /\ cardholderId[u] \notin heard[u] =>
            \E h \in Holder \ {cardholderId[u]} : holder[h].customer = u
=============================================================================
