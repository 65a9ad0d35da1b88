------------------------------ MODULE MCVerify ------------------------------
(* MCOnboarding together with the codes that prove a mailbox.  They share no *)
(* variable, so a behaviour exercises one of them while the other stays in   *)
(* its initial state.                                                        *)
EXTENDS MCOnboarding, Codes

CONSTANTS h1, h2, m1, m2, c1, c2

TwoHolders == {h1, h2}
TwoBoxes   == {m1, m2}
TwoCalls   == {c1, c2}
OwnBoxes   == (h1 :> m1) @@ (h2 :> m2)

verifyVars == <<vars, codeVars>>

VerifyInit == Init /\ CodesInit

NoOnboarding == Init /\ UNCHANGED vars
NoCodes      == CodesInit /\ UNCHANGED codeVars

VerifyNext ==
  \/ NoCodes /\ Next
  \/ NoOnboarding /\ CodesNext

VerifySpec == VerifyInit /\ [][VerifyNext]_verifyVars
=============================================================================
