---------------------------- MODULE MCOnboarding ----------------------------
(* Onboarding on small sets of users, emails, numbers and requests.        *)
EXTENDS Onboarding, TLC

CONSTANTS u1, u2, e1, e2, n1, n2, p1, p2, x1, x2

TwoUsers     == {u1, u2}
OneApplicant == {u1}
TwoEmails    == {e1, e2}
TwoPhones    == {n1, n2}
TwoProcs     == {p1, p2}
TwoExecs     == {x1, x2}

\* Users are not interchangeable: one of them is the applicant.
Symmetry == Permutations(Email) \cup Permutations(Phone)
            \cup Permutations(Proc) \cup Permutations(Exec)
=============================================================================
