------------------------------ MODULE MCLedger ------------------------------
(* Ledger on small sets of wallets, requests and handlers.                 *)
EXTENDS Ledger, TLC

CONSTANTS w1, w2, r1, r2, r3, h1, h2

OneWallet   == {w1}
TwoWallets  == {w1, w2}
TwoReqs     == {r1, r2}
ThreeReqs   == {r1, r2, r3}
OneHandler  == {h1}
TwoHandlers == {h1, h2}

\* Wallets, requests and handlers are interchangeable.
Symmetry == Permutations(Wallet) \cup Permutations(Req)
            \cup Permutations(Handler)

\* A negative amount, one below the fee, and one above it.
AnyAmounts == {-1, 1, 3}
=============================================================================
