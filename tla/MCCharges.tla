------------------------------ MODULE MCCharges ------------------------------
(* MCLedger together with what its requests do besides moving money: Charges *)
(* says what they cost, Beneficiaries whom they save, AccessTokens how the   *)
(* calls of the provider are authorised.  They share no variable, so a       *)
(* behaviour exercises one of them while the others stay in their initial    *)
(* state.                                                                    *)
EXTENDS MCLedger, Charges, Beneficiaries, AccessTokens

CONSTANTS d1, e1, e2, e3, u1, u2, a1, n1, c1, c2, b1, b2

OneDeal      == {d1}
TwoRates     == {[percent |-> 0, fixed |-> 3], [percent |-> 5, fixed |-> 0]}
ThreeErrands == {e1, e2, e3}
TwoOwners    == {u1, u2}
OneTarget    == {a1}
OneLabel     == {n1}
TwoAskers    == {c1, c2}
TwoBearers   == {b1, b2}

paidVars == <<vars, chargeVars, bookVars, accessVars>>

PaidInit == Init /\ ChargesInit /\ BookInit /\ AccessInit

\* One of the initial contents of the tables stands for all, to the others.
SomeTables ==
  /\ rates = [k \in RateKeys |-> {CHOOSE r \in Rate : TRUE}]
  /\ prices = [k \in CardType \X Usage |-> {CHOOSE p \in Price : TRUE}]

NoPayments == Init /\ UNCHANGED vars
NoCharges  == ChargesInit /\ SomeTables /\ UNCHANGED chargeVars
NoBook     == BookInit /\ UNCHANGED bookVars
NoAccess   == AccessInit /\ UNCHANGED accessVars

PaidNext ==
  \/ NoCharges /\ NoBook /\ NoAccess /\ Next
  \/ NoPayments /\ NoBook /\ NoAccess /\ ChargesNext
  \/ NoPayments /\ NoCharges /\ NoAccess /\ BookNext
  \/ NoPayments /\ NoCharges /\ NoBook /\ AccessNext

PaidSpec == PaidInit /\ [][PaidNext]_paidVars
=============================================================================
