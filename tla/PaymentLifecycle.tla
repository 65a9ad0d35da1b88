-------------------------- MODULE PaymentLifecycle --------------------------
(***************************************************************************)
(* What a wallet owner is promised about one crypto payment: it is         *)
(* requested once, it is settled at most once, and a settled payment keeps *)
(* its outcome.  The ledger of the backend is shown to implement this      *)
(* under the conditions stated in Ledger.                                  *)
(***************************************************************************)
CONSTANT Payment

VARIABLE state   \* state[p]: what the wallet history shows of payment p

State == {"absent", "pending", "paid", "failed"}

PLTypeOK == state \in [Payment -> State]

Init == state = [p \in Payment |-> "absent"]

Request(p) ==
  /\ state[p] = "absent"
  /\ state' = [state EXCEPT ![p] = "pending"]

Settle(p, outcome) ==
  /\ state[p] = "pending"
  /\ state' = [state EXCEPT ![p] = outcome]

Next == \E p \in Payment :
          \/ Request(p)
          \/ \E outcome \in {"paid", "failed"} : Settle(p, outcome)

Spec == Init /\ [][Next]_state
=============================================================================
