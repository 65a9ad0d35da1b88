----------------------------- MODULE MCSessions -----------------------------
(* Sessions on small sets of users, devices, tokens and requests.          *)
EXTENDS Sessions, TLC

CONSTANTS u1, d1, d2, t1, t2, t3, t4, p1, p2

OneUser    == {u1}
TwoDevices == {d1, d2}
FourTokens == {t1, t2, t3, t4}
TwoProcs   == {p1, p2}

\* Devices, tokens and requests are interchangeable.
Symmetry == Permutations(Device) \cup Permutations(Token) \cup Permutations(Proc)
=============================================================================
