---------------------------- MODULE Beneficiaries ----------------------------
(***************************************************************************)
(* Saving the beneficiary of a payment on the way: applyWithdrawal saves   *)
(* the crypto wallet before it pays, applyTransfer saves the payee after   *)
(* it has paid.  Both look for a row that matches and insert one if there  *)
(* is none, with an await between and no unique key on either table.       *)
(*                                                                         *)
(* The endpoints that add a beneficiary by itself never add one: the body  *)
(* of add-user is never valid (a number with a maximal length), so it has  *)
(* no action here, and add-wallet leaves the name NULL, which its column   *)
(* forbids.  Requests are those of a token that carries an id              *)
(* (TokenCarriesId of Ledger).                                             *)
(***************************************************************************)
EXTENDS Integers, FiniteSets

CONSTANTS
  Errand,   \* the payments asked for with to_save_as_beneficiary, and the
            \* requests of add-wallet
  Owner,    \* the users
  Target,   \* crypto addresses and payees
  Label,    \* the names an address is saved under
  Nobody    \* no owner, no target, no label

ASSUME BeneficiariesAssumption == Nobody \notin Owner \cup Target \cup Label

VARIABLES
  errand,   \* progress of each payment
  book,     \* the rows of beneficiary_wallet and beneficiary_user
  spent,    \* payments that moved money
  raced     \* entries looked for while another request was about to insert

bookVars == <<errand, book, spent, raced>>

Manner == {"withdrawal", "transfer"}

\* A payee is saved under no name.
Entry == [owner : Owner, target : Target, label : Label \cup {Nobody},
          manner : Manner]

NoEntry == [owner |-> Nobody, target |-> Nobody, label |-> Nobody,
            manner |-> "withdrawal"]

BookTypeOK ==
  /\ errand \in [Errand ->
       [pc : {"idle", "paying", "looking", "adding", "ok", "error"},
        entry : Entry \cup {NoEntry}, answered : BOOLEAN]]
  /\ book \subseteq [id : Errand, entry : Entry]
  /\ spent \subseteq Errand
  /\ raced \subseteq Entry

BookInit ==
  /\ errand = [e \in Errand |-> [pc |-> "idle", entry |-> NoEntry,
                                 answered |-> TRUE]]
  /\ book = {}
  /\ spent = {}
  /\ raced = {}

-----------------------------------------------------------------------------
Goto(e, pc) == errand' = [errand EXCEPT ![e].pc = pc]

At(pc) == {e \in Errand : errand[e].pc = pc}

\* The balance suffices: a withdrawal looks for the beneficiary first, a
\* transfer pays first.
StartErrand(e, entry) ==
  /\ errand[e].pc = "idle"
  /\ entry.manner = "transfer" <=> entry.label = Nobody
  /\ errand' = [errand EXCEPT
       ![e].pc = IF entry.manner = "transfer" THEN "paying" ELSE "looking",
       ![e].entry = entry]
  /\ UNCHANGED <<book, spent, raced>>

\* The provider's wallets that a user saves by hand have no name.
Unnamed(entry) == entry.manner = "withdrawal" /\ entry.label = Nobody

\* add-wallet: looks for the address and pays nothing.
AddWallet(e, entry) ==
  /\ errand[e].pc = "idle" /\ Unnamed(entry)
  /\ errand' = [errand EXCEPT ![e].pc = "looking", ![e].entry = entry]
  /\ UNCHANGED <<book, spent, raced>>

\* After the money has moved a transfer still has its beneficiary to save.
AfterPay(e) == IF errand[e].entry.manner = "transfer" THEN "looking" ELSE "ok"

AfterSave(e) ==
  IF errand[e].entry.manner = "transfer" \/ Unnamed(errand[e].entry)
  THEN "ok" ELSE "paying"

\* The two rows of the transfer, or the call of the provider: its answer may
\* get lost, and the row of the withdrawal may fail to be saved.
MoveMoney(e) ==
  /\ e \in At("paying")
  /\ spent' = spent \cup {e}
  /\ \/ Goto(e, AfterPay(e))
     \/ /\ errand[e].entry.manner = "withdrawal"
        /\ errand' = [errand EXCEPT ![e].pc = "error", ![e].answered = FALSE]
  /\ UNCHANGED <<book, raced>>

\* Mutant: the query forgets the owner, as where {payerId: undefined} does.
FoundForAnyone(entry) ==
  {row \in book : row.entry = [entry EXCEPT !.owner = row.entry.owner]}

\* The find takes what its caller has: without a name, a wallet of any.
Matches(row, entry) ==
  \/ row.entry = entry
  \/ Unnamed(entry) /\ row.entry = [entry EXCEPT !.label = row.entry.label]

Found(entry) == {row \in book : Matches(row, entry)}

\* The find of create: one that matches ends it with false, which nobody reads.
FindBeneficiary(e) ==
  /\ e \in At("looking")
  /\ LET entry == errand[e].entry
     IN  /\ Goto(e, IF Found(entry) # {} THEN AfterSave(e) ELSE "adding")
         /\ raced' = IF \E f \in At("adding") : errand[f].entry = entry
                     THEN raced \cup {entry} ELSE raced
  /\ UNCHANGED <<book, spent>>

\* The name of a wallet must not be null.
SaveBeneficiary(e) ==
  /\ e \in At("adding") /\ ~ Unnamed(errand[e].entry)
  /\ book' = book \cup {[id |-> e, entry |-> errand[e].entry]}
  /\ Goto(e, AfterSave(e))
  /\ UNCHANGED <<spent, raced>>

\* The database, the fee lookup or the provider fails: 500, or the process
\* dies and the client sees the connection drop.
ErrandFails(e) ==
  /\ errand[e].pc \in {"paying", "looking", "adding"}
  /\ Goto(e, "error")
  /\ UNCHANGED <<book, spent, raced>>

-----------------------------------------------------------------------------
BookNext ==
  \E e \in Errand :
    \/ \E entry \in Entry : StartErrand(e, entry) \/ AddWallet(e, entry)
    \/ MoveMoney(e) \/ FindBeneficiary(e) \/ SaveBeneficiary(e)
    \/ ErrandFails(e)

BookSpec == BookInit /\ [][BookNext]_bookVars

-----------------------------------------------------------------------------
(***************************************************************************)
(* The list of beneficiaries shows an entry once unless two payments raced *)
(* for it; a payment that answers success has its beneficiary in the       *)
(* payer's own list, whoever else saved the same one.  A withdrawal that   *)
(* fails has moved no money unless the provider's answer or the row got    *)
(* lost; an error from a transfer tells nothing: one that could not save   *)
(* the beneficiary has paid.  To add a wallet by hand is an error unless   *)
(* the list already has its address under some name, and moves no money.   *)
(***************************************************************************)
Listed(entry) == {row \in book : row.entry = entry}

ListedOnce == \A entry \in Entry \ raced : Cardinality(Listed(entry)) <= 1

ListedWhenAsked ==
  \A e \in At("ok") : \E row \in book : Matches(row, errand[e].entry)

PaidWhenOk ==
  \A e \in At("ok") : e \in spent <=> ~ Unnamed(errand[e].entry)

ErrorMeansUnpaid ==
  \A e \in At("error") \cap spent :
    errand[e].entry.manner = "transfer" \/ ~ errand[e].answered

BeneficiaryOnce ==
  BookTypeOK /\ ListedOnce /\ ListedWhenAsked /\ PaidWhenOk /\ ErrorMeansUnpaid
=============================================================================
