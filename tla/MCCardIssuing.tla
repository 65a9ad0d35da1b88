--------------------------- MODULE MCCardIssuing ---------------------------
(* CardIssuing on small sets of orders, wallets and executions.            *)
EXTENDS CardIssuing, TLC

CONSTANTS o1, o2, w1, e1, e2

OneOrder  == {o1}
TwoOrders == {o1, o2}
OneWallet == {w1}
TwoExecs  == {e1, e2}

AllButParallel == AllHazards \ {"parallel_orders"}

\* An order that earns, and one of which the funds pay one and not two.
AnyTopups == {-3, 2}
=============================================================================
