----------------------------- MODULE MCCardDesk -----------------------------
(* MCCardIssuing together with what surrounds a card order: the account and *)
(* its PIN, the cardholder at the provider, and the blocking of cards.      *)
(* They share no variable, so a behaviour exercises one of them while the   *)
(* others stay in their initial state.                                      *)
EXTENDS MCCardIssuing, CardControl, Cardholders, Accounts

CONSTANTS c1, c2, u1, u2, h1, h2, h3, j1, j2, t1, t2, n1, n2

TwoCards     == {c1, c2}
OneLinked    == {c1}
TwoCustomers == {u1, u2}
ThreeHolders == {h1, h2, h3}
OneClient    == {u1}
TwoJobs      == {j1, j2}
TwoJwts      == {t1, t2}
TwoPins      == {n1, n2}

deskVars == <<vars, controlVars, cardholderVars, accountVars>>

DeskInit == Init /\ CardControlInit /\ CardholdersInit /\ AccountsInit

NoCards    == Init /\ UNCHANGED vars
NoControl  == CardControlInit /\ UNCHANGED controlVars
NoHolders  == CardholdersInit /\ UNCHANGED cardholderVars
NoAccounts == AccountsInit /\ UNCHANGED accountVars

DeskNext ==
  \/ NoControl /\ NoHolders /\ NoAccounts /\ Next
  \/ NoCards /\ NoHolders /\ NoAccounts /\ CardControlNext
  \/ NoCards /\ NoControl /\ NoAccounts /\ CardholdersNext
  \/ NoCards /\ NoControl /\ NoHolders /\ AccountsNext

DeskSpec ==
  DeskInit /\ [][DeskNext]_deskVars /\ Fairness /\ AccountsFairness
=============================================================================
