------------------------- MODULE Onboarding_proofs --------------------------
(***************************************************************************)
(* Type correctness of Onboarding and the inductive invariants behind its  *)
(* properties of emails, phone numbers, completed accounts and verdicts.   *)
(***************************************************************************)
EXTENDS Onboarding, Codes, FiniteSetTheorems, TLAPS

-----------------------------------------------------------------------------
(* The inductive invariants.                                               *)

\* A row is there once its signup saved it, with the email of the signup.
SignupsFit ==
  \A u \in User :
    /\ Exists(u) <=> signup[u].pc \in {"saved", "done"}
    /\ signup[u].pc # "idle" => signup[u].email \in Email
    /\ Exists(u) => account[u].email = signup[u].email
    /\ u \in token => Exists(u)

RequestsFit ==
  \A p \in Proc : request[p].pc # "free" =>
    request[p].user \in token /\ request[p].phone \in Phone

\* A delivery is of a GREEN review of its user.
ExecsFit ==
  \A x \in Exec :
    IF exec[x].pc = "free" THEN exec[x].user = Null
    ELSE /\ exec[x].user \in token
         /\ exec[x].index \in 1..Len(review[exec[x].user])
         /\ review[exec[x].user][exec[x].index] = "GREEN"

ReviewsFit ==
  \A u \in User :
    /\ Len(review[u]) <= MaxReview
    /\ effect[u] \subseteq 1..Len(review[u])
    /\ review[u] # <<>> => u \in token

Base == TypeOK /\ SignupsFit /\ RequestsFit /\ ExecsFit /\ ReviewsFit

-----------------------------------------------------------------------------
(* Rows.                                                                   *)

LEMMA RowType ==
  ASSUME TypeOK, NEW u \in User
  PROVE  IF Exists(u) THEN account[u] \in Account ELSE account[u] = None
BY DEF TypeOK, Exists, Account, None

LEMMA TokenType ==
  ASSUME Base, NEW u \in token
  PROVE  u \in User /\ account[u] \in Account
BY RowType DEF Base, TypeOK, SignupsFit

LEMMA NewType ==
  ASSUME NEW e \in Email
  PROVE  New(e) \in Account /\ New(e).status = "REGISTERED" /\ New(e).email = e
         /\ New(e).kyc = "NOT_STARTED" /\ New(e).phoneValidated = FALSE
BY DEF New, None, Account

\* What an update may do to a row that is there.
LEMMA UpdateType ==
  ASSUME Base, NEW u \in token, NEW row,
         account' = [account EXCEPT ![u] = row],
         account[u] \in Account => row \in Account /\ row.email = account[u].email
  PROVE  /\ account' \in [User -> {None} \cup Account]
         /\ \A v \in User : account'[v] = IF v = u THEN row ELSE account[v]
         /\ \A v \in User : account'[v].email = account[v].email
         /\ \A v \in User : Exists(v)' <=> Exists(v)
<1>1. u \in User /\ Exists(u) /\ account[u] \in Account
  BY RowType DEF Base, TypeOK, SignupsFit
<1>2. row \in Account /\ row.status # "none"
  BY <1>1 DEF Account
<1> QED
  BY <1>1, <1>2 DEF Base, TypeOK, Exists

-----------------------------------------------------------------------------
(* Type correctness, with the facts it rests on.                           *)

LEMMA BaseInit == Init => Base
<1> SUFFICES ASSUME Init PROVE Base
  OBVIOUS
<1>1. TypeOK
  BY OnboardingAssumption DEF Init, TypeOK, Idle, Free, FreeExec, None
<1> QED
  BY <1>1, OnboardingAssumption
     DEF Init, Base, SignupsFit, RequestsFit, ExecsFit, ReviewsFit, Exists, Idle, Free,
         FreeExec, None

LEMMA SignupType ==
  ASSUME TypeOK, NEW u \in User, NEW pc \in {"saved", "done"}
  PROVE  [signup EXCEPT ![u].pc = pc]
           \in [User -> [pc : {"idle", "checked", "saved", "done"}, email : Email \cup {Null}]]
<1> DEFINE Progress == [pc : {"idle", "checked", "saved", "done"}, email : Email \cup {Null}]
<1>1. signup \in [User -> Progress]
  BY DEF TypeOK
<1>2. [signup[u] EXCEPT !.pc = pc] \in Progress
  BY <1>1
<1> HIDE DEF Progress
<1>3. [signup EXCEPT ![u].pc = pc] \in [User -> Progress]
  BY <1>1, <1>2
<1> QED
  BY <1>3 DEF Progress

LEMMA BaseSignup ==
  ASSUME Base, NEW u \in User,
         SignupStep(u) \/ \E e \in Email : SignupCheck(u, e)
  PROVE  Base'
<1> USE DEF accounts, phones, reviews
<1>1. ASSUME NEW e \in Email, SignupCheck(u, e) PROVE Base'
  <2>1. TypeOK'
    BY <1>1 DEF Base, TypeOK, SignupCheck, Checking
  <2> QED
    BY <1>1, <2>1 DEF Base, TypeOK, SignupsFit, RequestsFit, ExecsFit, ReviewsFit,
                      SignupCheck, Exists
<1>2. CASE SignupSave(u)
  <2>1. signup[u].email \in Email
    BY <1>2 DEF SignupSave, Base, SignupsFit
  <2>2. New(signup[u].email) \in Account /\ New(signup[u].email).status # "none"
        /\ New(signup[u].email).email = signup[u].email
    BY <2>1, NewType
  <2>3. TypeOK'
    <3>1. account' \in [User -> {None} \cup Account]
      BY <1>2, <2>2 DEF Base, TypeOK, SignupSave
    <3>2. signup' \in [User -> [pc : {"idle", "checked", "saved", "done"}, email : Email \cup {Null}]]
      BY <1>2, SignupType DEF Base, SignupSave
    <3> QED
      BY <1>2, <3>1, <3>2 DEF Base, TypeOK, SignupSave
  <2>4. signup' = [signup EXCEPT ![u].pc = "saved"]
        /\ account' = [account EXCEPT ![u] = New(signup[u].email)]
        /\ token' = token
    BY <1>2 DEF SignupSave
  <2>5. \A v \in User : v # u => signup'[v] = signup[v] /\ account'[v] = account[v]
    BY <2>4 DEF Base, TypeOK
  <2>6. signup'[u].pc = "saved" /\ signup'[u].email = signup[u].email
        /\ account'[u] = New(signup[u].email)
    BY <2>4 DEF Base, TypeOK
  <2>7. SignupsFit'
    BY <2>1, <2>2, <2>4, <2>5, <2>6 DEF Base, SignupsFit, Exists
  <2> QED
    BY <1>2, <2>3, <2>7 DEF Base, TypeOK, RequestsFit, ExecsFit, ReviewsFit, SignupSave
<1>3. CASE SignupFails(u)
  <2>1. TypeOK'
    BY <1>3 DEF Base, TypeOK, SignupFails, Idle
  <2>2. ~ Exists(u)
    BY <1>3 DEF SignupFails, Base, SignupsFit
  <2>3. \A v \in User : signup'[v] = IF v = u THEN Idle ELSE signup[v]
    BY <1>3 DEF SignupFails, Base, TypeOK
  <2>4. account' = account /\ token' = token
    BY <1>3 DEF SignupFails
  <2>5. SignupsFit'
    BY <2>2, <2>3, <2>4 DEF Base, SignupsFit, Exists, Idle
  <2> QED
    BY <1>3, <2>1, <2>5 DEF Base, TypeOK, RequestsFit, ExecsFit, ReviewsFit, SignupFails
<1>4. CASE SignupToken(u)
  <2>1. TypeOK'
    <3>1. signup' \in [User -> [pc : {"idle", "checked", "saved", "done"}, email : Email \cup {Null}]]
      BY <1>4, SignupType DEF Base, SignupToken
    <3> QED
      BY <1>4, <3>1 DEF Base, TypeOK, SignupToken
  <2> QED
    BY <1>4, <2>1 DEF Base, TypeOK, SignupsFit, RequestsFit, ExecsFit, ReviewsFit,
                      SignupToken, Exists
<1> QED
  BY <1>1, <1>2, <1>3, <1>4 DEF SignupStep

LEMMA BasePhone ==
  ASSUME Base, NEW p \in Proc,
         PhoneStep(p) \/ \E u \in User : ConfirmPhone(p, u) \/ \E n \in Phone : SendPhone(p, u, n)
  PROVE  Base'
<1> USE DEF accounts, phones, reviews
<1>1. ASSUME NEW u \in User, ConfirmPhone(p, u) PROVE Base'
  <2>1. account[u].phone \in Phone
    BY <1>1, RowType DEF ConfirmPhone, MayVerify, Base, SignupsFit, Account
  <2>2. TypeOK'
    BY <1>1, <2>1 DEF Base, TypeOK, ConfirmPhone, Begin, Overlapping
  <2> QED
    BY <1>1, <2>1, <2>2 DEF Base, TypeOK, SignupsFit, RequestsFit, ExecsFit, ReviewsFit,
                            ConfirmPhone, MayVerify, Begin, Exists
<1>2. ASSUME NEW u \in User, NEW n \in Phone, SendPhone(p, u, n) PROVE Base'
  <2>1. TypeOK'
    BY <1>2 DEF Base, TypeOK, SendPhone, Begin, Overlapping
  <2> QED
    BY <1>2, <2>1 DEF Base, TypeOK, SignupsFit, RequestsFit, ExecsFit, ReviewsFit,
                      SendPhone, MayVerify, Begin, Exists
<1> DEFINE u == request[p].user
<1>3. CASE SavePhone(p)
  <2>1. u \in token /\ u \in User /\ request[p].phone \in Phone
    BY <1>3 DEF SavePhone, Base, RequestsFit, TypeOK
  <2> DEFINE row == [account[u] EXCEPT !.phone = request[p].phone]
  <2>2. account' = [account EXCEPT ![u] = row]
    BY <1>3 DEF SavePhone, Update
  <2>3. account[u] \in Account => row \in Account /\ row.email = account[u].email
    BY <2>1 DEF Account
  <2> HIDE DEF u, row
  <2>4. /\ account' \in [User -> {None} \cup Account]
        /\ \A v \in User : account'[v].email = account[v].email
        /\ \A v \in User : Exists(v)' <=> Exists(v)
    BY <2>1, <2>2, <2>3, UpdateType
  <2>5. TypeOK'
    BY <1>3, <2>4 DEF Base, TypeOK, SavePhone, Free
  <2> QED
    BY <1>3, <2>4, <2>5 DEF Base, TypeOK, SignupsFit, RequestsFit, ExecsFit, ReviewsFit,
                            SavePhone, Free
<1>4. CASE ValidatePhone(p)
  <2>1. u \in token /\ u \in User /\ request[p].phone \in Phone
    BY <1>4 DEF ValidatePhone, Base, RequestsFit, TypeOK
  <2> DEFINE row == [account[u] EXCEPT !.phoneValidated = TRUE]
  <2>2. account' = [account EXCEPT ![u] = row]
    BY <1>4 DEF ValidatePhone, Update
  <2>3. account[u] \in Account => row \in Account /\ row.email = account[u].email
    BY <2>1 DEF Account
  <2>3a. approved' \subseteq User \X Phone
    BY <1>4, <2>1 DEF ValidatePhone, Base, TypeOK
  <2> HIDE DEF u, row
  <2>4. /\ account' \in [User -> {None} \cup Account]
        /\ \A v \in User : account'[v].email = account[v].email
        /\ \A v \in User : Exists(v)' <=> Exists(v)
    BY <2>1, <2>2, <2>3, UpdateType
  <2>5. TypeOK'
    BY <1>4, <2>3a, <2>4 DEF Base, TypeOK, ValidatePhone, Free
  <2> QED
    BY <1>4, <2>4, <2>5 DEF Base, TypeOK, SignupsFit, RequestsFit, ExecsFit, ReviewsFit,
                            ValidatePhone, Free
<1>5. CASE PhoneFails(p)
  <2>1. TypeOK'
    BY <1>5 DEF Base, TypeOK, PhoneFails, Free
  <2> QED
    BY <1>5, <2>1 DEF Base, TypeOK, SignupsFit, RequestsFit, ExecsFit, ReviewsFit,
                      PhoneFails, Free, Exists
<1> QED
  BY <1>1, <1>2, <1>3, <1>4, <1>5 DEF PhoneStep

LEMMA BaseReview ==
  ASSUME Base, NEW u \in User, NEW i \in 1..MaxReview,
         \/ \E verdict \in {"GREEN", "RED"} : Review(u, verdict)
         \/ GiveUp(u, i)
         \/ \E answer \in {"closed", "failed"} : Reject(u, i, answer)
  PROVE  Base'
<1> USE DEF accounts, phones, reviews
<1>1. ASSUME NEW verdict \in {"GREEN", "RED"}, Review(u, verdict) PROVE Base'
  <2>1. review[u] \in Seq({"GREEN", "RED"}) /\ Len(review[u]) < MaxReview
        /\ u \in token /\ Len(review[u]) \in Nat
    BY <1>1 DEF Review, MayVerify, Base, TypeOK
  <2>2. \A v \in User : review'[v] = IF v = u THEN Append(review[u], verdict) ELSE review[v]
    BY <1>1 DEF Review, Base, TypeOK
  <2>3. Append(review[u], verdict) \in Seq({"GREEN", "RED"})
        /\ Len(Append(review[u], verdict)) = Len(review[u]) + 1
        /\ \A j \in 1..Len(review[u]) : Append(review[u], verdict)[j] = review[u][j]
    BY <2>1
  <2>4. review' \in [User -> Seq({"GREEN", "RED"})]
    BY <1>1, <2>3 DEF Review, Base, TypeOK
  <2>5. TypeOK'
    BY <1>1, <2>4 DEF Base, TypeOK, Review
  <2>5a. Len(review'[u]) = Len(review[u]) + 1
    BY <2>2, <2>3
  <2>6. \A v \in User : 1..Len(review[v]) \subseteq 1..Len(review'[v])
    <3>1. 1..Len(review[u]) \subseteq 1..Len(review'[u])
      BY <2>1, <2>5a
    <3> QED
      BY <2>2, <3>1
  <2>7. \A v \in User : \A j \in 1..Len(review[v]) : review'[v][j] = review[v][j]
    BY <2>2, <2>3
  <2>8. Len(review'[u]) <= MaxReview
    BY <2>1, <2>5a, OnboardingAssumption
  <2>9. ReviewsFit'
    BY <1>1, <2>1, <2>2, <2>6, <2>8 DEF Review, Base, ReviewsFit
  <2>10. ExecsFit'
    BY <1>1, <2>6, <2>7 DEF Review, Base, TypeOK, ExecsFit
  <2> QED
    BY <1>1, <2>5, <2>9, <2>10 DEF Base, SignupsFit, RequestsFit, Review, Exists
<1>2. CASE GiveUp(u, i)
  <2>1. TypeOK'
    BY <1>2 DEF Base, TypeOK, GiveUp, Close
  <2> QED
    BY <1>2, <2>1 DEF Base, SignupsFit, RequestsFit, ExecsFit, ReviewsFit, GiveUp, Exists
<1>3. ASSUME NEW answer \in {"closed", "failed"}, Reject(u, i, answer) PROVE Base'
  <2> DEFINE row == [account[u] EXCEPT !.kyc = "REJECTED"]
  <2>1. i \in 1..Len(review[u]) /\ u \in token
    BY <1>3 DEF Reject, Deliverable, Base, TypeOK, ReviewsFit
  <2>2. account' = [account EXCEPT ![u] = row]
    BY <1>3 DEF Reject, Update
  <2>3. account[u] \in Account => row \in Account /\ row.email = account[u].email
    BY DEF Account
  <2> HIDE DEF row
  <2>4. /\ account' \in [User -> {None} \cup Account]
        /\ \A v \in User : account'[v].email = account[v].email
        /\ \A v \in User : Exists(v)' <=> Exists(v)
    BY <2>1, <2>2, <2>3, UpdateType
  <2>5. TypeOK'
    <3>1. notice' \in [User -> [1..MaxReview -> {"open", "failed", "closed"}]]
      BY <1>3 DEF Reject, Close, Base, TypeOK
    <3>2. effect' \in [User -> SUBSET (1..MaxReview)] /\ disorder' \subseteq User
      BY <1>3 DEF Reject, Delivered, Base, TypeOK
    <3> QED
      BY <1>3, <2>4, <3>1, <3>2 DEF Base, TypeOK, Reject
  <2> QED
    BY <1>3, <2>1, <2>4, <2>5 DEF Base, TypeOK, SignupsFit, RequestsFit, ExecsFit, ReviewsFit, Reject
<1> QED
  BY <1>1, <1>2, <1>3

LEMMA BaseExec ==
  ASSUME Base, NEW x \in Exec,
         \/ \E u \in User, i \in 1..MaxReview : FetchApplicant(x, u, i)
         \/ InsertProfile(x) \/ CompleteFails(x)
         \/ \E answer \in {"closed", "failed"} : Complete(x, answer)
  PROVE  Base'
<1> USE DEF accounts, phones, reviews
<1>1. ASSUME NEW u \in User, NEW i \in 1..MaxReview, FetchApplicant(x, u, i) PROVE Base'
  <2>1. i \in 1..Len(review[u]) /\ review[u][i] = "GREEN" /\ u \in token
    BY <1>1 DEF FetchApplicant, Deliverable, Base, TypeOK, ReviewsFit
  <2>2. TypeOK'
    BY <1>1 DEF Base, TypeOK, FetchApplicant, Delivered
  <2> QED
    BY <1>1, <2>1, <2>2 DEF Base, TypeOK, SignupsFit, RequestsFit, ExecsFit, ReviewsFit,
                            FetchApplicant, Exists
<1>2. CASE InsertProfile(x)
  <2>1. TypeOK'
    BY <1>2 DEF Base, TypeOK, InsertProfile
  <2> QED
    BY <1>2, <2>1 DEF Base, TypeOK, SignupsFit, RequestsFit, ExecsFit, ReviewsFit,
                      InsertProfile, Exists
<1> DEFINE u == exec[x].user
           i == exec[x].index
<1>3. CASE CompleteFails(x)
  <2>1. u \in User /\ i \in 1..MaxReview
    BY <1>3, OnboardingAssumption DEF CompleteFails, Base, TypeOK, ExecsFit, ReviewsFit
  <2>2. TypeOK'
    BY <1>3, <2>1, OnboardingAssumption DEF Base, TypeOK, CompleteFails, Close, FreeExec
  <2> QED
    BY <1>3, <2>2 DEF Base, TypeOK, SignupsFit, RequestsFit, ExecsFit, ReviewsFit,
                      CompleteFails, FreeExec, Exists
<1>4. ASSUME NEW answer \in {"closed", "failed"}, Complete(x, answer) PROVE Base'
  <2> DEFINE row == [account[u] EXCEPT !.status = "COMPLETED", !.kyc = "VALIDATED"]
  <2>1. /\ u \in token /\ u \in User
        /\ i \in 1..Len(review[u]) /\ i \in 1..MaxReview
    BY <1>4, OnboardingAssumption DEF Complete, Base, TypeOK, ExecsFit, ReviewsFit
  <2>2. account' = [account EXCEPT ![u] = row]
    BY <1>4 DEF Complete
  <2>3. account[u] \in Account => row \in Account /\ row.email = account[u].email
    BY DEF Account
  <2>3a. completed' \in [User -> Nat] /\ effect' \in [User -> SUBSET (1..MaxReview)]
    BY <1>4, <2>1 DEF Complete, Base, TypeOK
  <2>3b. notice' \in [User -> [1..MaxReview -> {"open", "failed", "closed"}]]
    BY <1>4, <2>1 DEF Complete, Close, Base, TypeOK
  <2> HIDE DEF row
  <2>4. /\ account' \in [User -> {None} \cup Account]
        /\ \A v \in User : account'[v].email = account[v].email
        /\ \A v \in User : Exists(v)' <=> Exists(v)
    BY <2>1, <2>2, <2>3, UpdateType
  <2>5. TypeOK'
    <3>1. /\ exec' \in [Exec -> [pc : {"free", "fetched", "saved"},
                               user : User \cup {Null}, index : 0..MaxReview]]
          /\ profile' \subseteq User
      BY <1>4, <2>1, OnboardingAssumption DEF Complete, Base, TypeOK, FreeExec
    <3> QED
      BY <1>4, <2>3a, <2>3b, <2>4, <3>1 DEF Base, TypeOK, Complete
  <2>6. ReviewsFit'
    BY <1>4, <2>1 DEF Complete, Base, TypeOK, ReviewsFit
  <2> QED
    <3>1. SignupsFit' /\ RequestsFit'
      BY <1>4, <2>4 DEF Base, SignupsFit, RequestsFit, Complete
    <3>2. ExecsFit'
      BY <1>4 DEF Base, TypeOK, ExecsFit, Complete, FreeExec
    <3> QED
      BY <2>5, <2>6, <3>1, <3>2 DEF Base
<1> QED
  BY <1>1, <1>2, <1>3, <1>4

LEMMA BaseRest ==
  ASSUME Base, NEW u \in User, ConfirmEmail(u) \/ RegisterCardholder(u)
  PROVE  Base'
<1> USE DEF accounts, phones, reviews
<1>1. CASE ConfirmEmail(u)
  <2> DEFINE row == [account[u] EXCEPT !.emailValidated = TRUE]
  <2>1. u \in token
    BY <1>1 DEF ConfirmEmail, MayVerify
  <2>2. account' = [account EXCEPT ![u] = row]
    BY <1>1 DEF ConfirmEmail, Update
  <2>3. account[u] \in Account => row \in Account /\ row.email = account[u].email
    BY DEF Account
  <2> HIDE DEF row
  <2>4. /\ account' \in [User -> {None} \cup Account]
        /\ \A v \in User : account'[v].email = account[v].email
        /\ \A v \in User : Exists(v)' <=> Exists(v)
    BY <2>1, <2>2, <2>3, UpdateType
  <2>5. TypeOK'
    BY <1>1, <2>4 DEF Base, TypeOK, ConfirmEmail
  <2> QED
    BY <1>1, <2>4, <2>5 DEF Base, SignupsFit, RequestsFit, ExecsFit, ReviewsFit, ConfirmEmail
<1>2. CASE RegisterCardholder(u)
  <2>1. TypeOK'
    BY <1>2, OnboardingAssumption DEF RegisterCardholder, Base, TypeOK
  <2> QED
    BY <1>2, <2>1 DEF Base, SignupsFit, RequestsFit, ExecsFit, ReviewsFit,
                      RegisterCardholder, Exists
<1> QED
  BY <1>1, <1>2

LEMMA BaseStutter == Base /\ UNCHANGED vars => Base'
BY DEF Base, TypeOK, SignupsFit, RequestsFit, ExecsFit, ReviewsFit, Exists,
       vars, accounts, phones, reviews

\* The kinds of steps, each with the variables it leaves alone.
SignupKind  == \E u \in User : SignupStep(u) \/ \E e \in Email : SignupCheck(u, e)
PhoneKind   == \E p \in Proc :
                 \/ PhoneStep(p)
                 \/ \E u \in User : ConfirmPhone(p, u) \/ \E n \in Phone : SendPhone(p, u, n)
ReviewKind  == \E u \in User, i \in 1..MaxReview :
                 \/ \E verdict \in {"GREEN", "RED"} : Review(u, verdict)
                 \/ GiveUp(u, i)
                 \/ \E answer \in {"closed", "failed"} : Reject(u, i, answer)
ExecKind    == \E x \in Exec :
                 \/ \E u \in User, i \in 1..MaxReview : FetchApplicant(x, u, i)
                 \/ InsertProfile(x) \/ CompleteFails(x)
                 \/ \E answer \in {"closed", "failed"} : Complete(x, answer)
RestKind    == \E u \in User : ConfirmEmail(u) \/ RegisterCardholder(u)

LEMMA Kinds ==
  ASSUME TypeOK, Next
  PROVE  SignupKind \/ PhoneKind \/ ReviewKind \/ ExecKind \/ RestKind
<1>1. ASSUME NEW u \in User, NEW verdict \in {"GREEN", "RED"}, Review(u, verdict)
      PROVE  ReviewKind
  <2>1. 1 \in 1..MaxReview
    BY <1>1, OnboardingAssumption DEF Review, TypeOK
  <2> QED
    BY <1>1, <2>1 DEF ReviewKind
<1>2. ASSUME NEW u \in User, NEW i \in 1..MaxReview,
             GiveUp(u, i) \/ \E answer \in {"closed", "failed"} : Reject(u, i, answer)
      PROVE  ReviewKind
  BY <1>2 DEF ReviewKind
<1> QED
  BY <1>1, <1>2 DEF Next, SignupKind, PhoneKind, ExecKind, RestKind

LEMMA BaseNext == Base /\ [Next]_vars => Base'
<1> SUFFICES ASSUME Base, [Next]_vars PROVE Base'
  OBVIOUS
<1>1. CASE SignupKind
  BY <1>1, BaseSignup DEF SignupKind
<1>2. CASE PhoneKind
  BY <1>2, BasePhone DEF PhoneKind
<1>3. CASE ReviewKind
  BY <1>3, BaseReview DEF ReviewKind
<1>4. CASE ExecKind
  BY <1>4, BaseExec DEF ExecKind
<1>5. CASE RestKind
  BY <1>5, BaseRest DEF RestKind
<1> QED
  BY <1>1, <1>2, <1>3, <1>4, <1>5, Kinds, BaseStutter DEF Base

LEMMA BaseCorrect == Spec => []Base
BY BaseInit, BaseNext, PTL DEF Spec

\* Every row, request, delivery and review keeps its type.
THEOREM TypeCorrect == Spec => []TypeOK
<1>1. Base => TypeOK
  BY DEF Base
<1> QED
  BY <1>1, BaseCorrect, PTL

-----------------------------------------------------------------------------
(* Emails.                                                                 *)

\* Two signups past the validator with one email passed it together.
EmailsInv ==
  \A u, v \in User :
    u # v /\ signup[u].pc # "idle" /\ signup[v].pc # "idle"
          /\ signup[u].email = signup[v].email
      => signup[u].email \in rushed

LEMMA EmailsNext == Base /\ EmailsInv /\ [Next]_vars => EmailsInv'
<1> SUFFICES ASSUME Base, EmailsInv, [Next]_vars PROVE EmailsInv'
  OBVIOUS
<1> USE DEF accounts, phones, reviews
<1>1. ASSUME NEW u \in User, NEW e \in Email, SignupCheck(u, e) PROVE EmailsInv'
  <2>1. \A v \in User : signup'[v] = IF v = u THEN [pc |-> "checked", email |-> e] ELSE signup[v]
    BY <1>1 DEF SignupCheck, Base, TypeOK
  <2>2. \A v \in User : signup[v].pc # "idle" /\ signup[v].email = e => signup[v].pc = "checked"
    <3>1. \A v \in User : account[v].email # e
      BY <1>1 DEF SignupCheck, Taken
    <3>2. \A v \in User : signup[v].pc \in {"saved", "done"} => account[v].email = signup[v].email
      BY DEF Base, SignupsFit
    <3>3. \A v \in User : signup[v].pc \in {"idle", "checked", "saved", "done"}
      BY DEF Base, TypeOK
    <3> QED
      BY <3>1, <3>2, <3>3
  <2>3. \A v \in User : signup[v].pc = "checked" /\ signup[v].email = e => Checking(e)
    BY DEF Checking, Base, TypeOK
  <2>4. rushed \subseteq rushed' /\ (Checking(e) => e \in rushed')
    BY <1>1 DEF SignupCheck
  <2> QED
    BY <1>1, <2>1, <2>2, <2>3, <2>4 DEF EmailsInv, SignupCheck
<1>2. ASSUME NEW u \in User, SignupStep(u) PROVE EmailsInv'
  <2>1. \A v \in User : signup'[v].pc # "idle" =>
          signup[v].pc # "idle" /\ signup'[v].email = signup[v].email
    <3>1. PICK to : signup' = [signup EXCEPT ![u].pc = to] \/ signup' = [signup EXCEPT ![u] = Idle]
      BY <1>2 DEF SignupStep, SignupSave, SignupFails, SignupToken
    <3>2. signup[u].pc # "idle"
      BY <1>2 DEF SignupStep, SignupSave, SignupFails, SignupToken
    <3>3. Idle.pc = "idle"
      BY DEF Idle
    <3>4. signup \in [User -> [pc : {"idle", "checked", "saved", "done"}, email : Email \cup {Null}]]
      BY DEF Base, TypeOK
    <3> QED
      BY <3>1, <3>2, <3>3, <3>4
  <2>2. rushed' = rushed
    BY <1>2 DEF SignupStep, SignupSave, SignupFails, SignupToken
  <2> QED
    BY <2>1, <2>2 DEF EmailsInv
<1>3. ASSUME ~ SignupKind PROVE UNCHANGED <<signup, rushed>>
  <2>1. CASE PhoneKind
    BY <2>1 DEF PhoneKind, PhoneStep, SavePhone, ValidatePhone, PhoneFails, ConfirmPhone, SendPhone
  <2>2. CASE ReviewKind
    BY <2>2 DEF ReviewKind, Review, GiveUp, Reject
  <2>3. CASE ExecKind
    BY <2>3 DEF ExecKind, FetchApplicant, InsertProfile, CompleteFails, Complete
  <2>4. CASE RestKind
    BY <2>4 DEF RestKind, ConfirmEmail, RegisterCardholder
  <2>5. CASE UNCHANGED vars
    BY <2>5 DEF vars
  <2> QED
    BY <1>3, <2>1, <2>2, <2>3, <2>4, <2>5, Kinds DEF Base
<1> QED
  BY <1>1, <1>2, <1>3 DEF SignupKind, EmailsInv

\* Two users share an email only if both signups passed the validator together.
THEOREM UniqueEmails == Spec => []EmailsAreUnique
<1>1. Init => EmailsInv
  BY DEF Init, EmailsInv, Idle
<1>2. Base /\ EmailsInv => EmailsAreUnique
  <2> SUFFICES ASSUME Base, EmailsInv, NEW u \in User, NEW v \in User,
                      u # v, Exists(u), account[u].email = account[v].email
               PROVE  account[u].email \in rushed
    BY DEF EmailsAreUnique
  <2>1. account[u].email \in Email
    BY RowType DEF Base, Account
  <2>2. Exists(v)
    BY <2>1, RowType, OnboardingAssumption DEF Base, None
  <2>3. \A w \in {u, v} : signup[w].pc # "idle" /\ signup[w].email = account[w].email
    BY <2>2 DEF Base, SignupsFit
  <2> QED
    BY <2>3 DEF EmailsInv
<1> QED
  BY <1>1, <1>2, BaseCorrect, EmailsNext, PTL DEF Spec

-----------------------------------------------------------------------------
(* Phone numbers.                                                          *)

At(p, pc, u) == request[p].pc = pc /\ request[p].user = u

\* A number that is being sent a code is of a user with none validated; a number
\* that is being confirmed is the one in the row.
PhonesInv ==
  \A u \in User \ overlap :
    /\ account[u].phoneValidated => <<u, account[u].phone>> \in approved
    /\ \A p \in Proc : At(p, "sending", u) =>
         ~ account[u].phoneValidated /\ \A q \in Proc : ~ At(q, "confirming", u)
    /\ \A q \in Proc : At(q, "confirming", u) => request[q].phone = account[u].phone

\* Only the requests about phones change numbers; a new row has none, as no row.
LEMMA PhoneFrame ==
  ASSUME Base, [Next]_vars, ~ PhoneKind
  PROVE  /\ UNCHANGED <<request, approved, overlap>>
         /\ \A v \in User : /\ account'[v].phone = account[v].phone
                            /\ account'[v].phoneValidated = account[v].phoneValidated
<1> USE DEF accounts, phones, reviews
<1> DEFINE Same == \A v \in User : /\ account'[v].phone = account[v].phone
                                   /\ account'[v].phoneValidated = account[v].phoneValidated
<1>1. ASSUME NEW u \in User, SignupStep(u) \/ \E e \in Email : SignupCheck(u, e)
      PROVE  UNCHANGED <<request, approved, overlap>> /\ Same
  <2>1. CASE SignupSave(u)
    <3>1. signup[u].email \in Email /\ ~ Exists(u)
      BY <2>1 DEF SignupSave, Base, SignupsFit
    <3>2. account[u] = None /\ account'[u] = New(signup[u].email)
      BY <2>1, <3>1, RowType DEF SignupSave, Base, TypeOK
    <3>3. \A v \in User : v # u => account'[v] = account[v]
      BY <2>1 DEF SignupSave, Base, TypeOK
    <3>4. /\ New(signup[u].email).phone = None.phone
          /\ New(signup[u].email).phoneValidated = None.phoneValidated
      BY DEF New, None
    <3> QED
      BY <2>1, <3>2, <3>3, <3>4 DEF SignupSave
  <2> QED
    BY <1>1, <2>1 DEF SignupStep, SignupFails, SignupToken, SignupCheck
<1>2. ASSUME NEW u \in token, NEW s, NEW k, NEW b,
             \/ account' = [account EXCEPT ![u] = [account[u] EXCEPT !.kyc = k]]
             \/ account' = [account EXCEPT ![u].status = s, ![u].kyc = k]
             \/ account' = [account EXCEPT ![u] = [account[u] EXCEPT !.emailValidated = b]]
      PROVE  Same
  <2>1. u \in User /\ account[u] \in Account
    BY TokenType
  <2>2. \A v \in User : v # u => account'[v] = account[v]
    BY <1>2, <2>1 DEF Base, TypeOK
  <2>3. account'[u].phone = account[u].phone
    BY <1>2, <2>1 DEF Base, TypeOK, Account
  <2>4. account'[u].phoneValidated = account[u].phoneValidated
    BY <1>2, <2>1 DEF Base, TypeOK, Account
  <2> QED
    BY <2>2, <2>3, <2>4
<1>3. CASE ReviewKind
  <2>1. ASSUME NEW u \in User, NEW i \in 1..MaxReview,
               NEW answer \in {"closed", "failed"}, Reject(u, i, answer)
        PROVE  UNCHANGED <<request, approved, overlap>> /\ Same
    <3>1. u \in token
      BY <2>1 DEF Reject, Deliverable, Base, TypeOK, ReviewsFit
    <3> QED
      BY <1>2, <2>1, <3>1 DEF Reject, Update
  <2> QED
    BY <1>3, <2>1 DEF ReviewKind, Review, GiveUp
<1>4. CASE ExecKind
  <2>1. ASSUME NEW x \in Exec, NEW answer \in {"closed", "failed"}, Complete(x, answer)
        PROVE  UNCHANGED <<request, approved, overlap>> /\ Same
    <3>1. exec[x].user \in token
      BY <2>1 DEF Complete, Base, ExecsFit
    <3> QED
      BY <1>2, <2>1, <3>1 DEF Complete
  <2> QED
    BY <1>4, <2>1 DEF ExecKind, FetchApplicant, InsertProfile, CompleteFails
<1>4a. CASE RestKind
  <2>1. ASSUME NEW u \in User, ConfirmEmail(u)
        PROVE  UNCHANGED <<request, approved, overlap>> /\ Same
    BY <1>2, <2>1 DEF ConfirmEmail, MayVerify, Update
  <2> QED
    BY <1>4a, <2>1 DEF RestKind, RegisterCardholder
<1>5. CASE UNCHANGED vars
  BY <1>5 DEF vars
<1> QED
  BY <1>1, <1>3, <1>4, <1>4a, <1>5, Kinds DEF Base, SignupKind

LEMMA PhonesNext == Base /\ PhonesInv /\ [Next]_vars => PhonesInv'
<1> SUFFICES ASSUME Base, PhonesInv, [Next]_vars PROVE PhonesInv'
  OBVIOUS
<1>1. CASE ~ PhoneKind
  BY <1>1, PhoneFrame DEF PhonesInv, At
<1>2. ASSUME NEW p \in Proc, NEW u \in User, NEW pc, NEW n,
             pc \in {"sending", "confirming"}, Begin(p, pc, u, n), Overlapping(u, pc),
             UNCHANGED <<account, approved>>,
             pc = "sending" => ~ account[u].phoneValidated,
             pc = "confirming" => n = account[u].phone
      PROVE  PhonesInv'
  <2>1. \A q \in Proc : request'[q] =
          IF q = p THEN [pc |-> pc, user |-> u, phone |-> n] ELSE request[q]
    BY <1>2 DEF Begin, Base, TypeOK
  <2>2. overlap \subseteq overlap'
    BY <1>2 DEF Overlapping
  <2>3. u \notin overlap' => \A q \in Proc : ~ At(q, Other(pc), u)
    BY <1>2 DEF Overlapping, At
  <2>4. Other("sending") = "confirming" /\ Other("confirming") = "sending"
    BY DEF Other
  <2> QED
    BY <1>2, <2>1, <2>2, <2>3, <2>4 DEF PhonesInv, At
<1>3. ASSUME NEW p \in Proc, NEW u \in User, ConfirmPhone(p, u) PROVE PhonesInv'
  BY <1>2, <1>3 DEF ConfirmPhone, accounts
<1>4. ASSUME NEW p \in Proc, NEW u \in User, NEW n \in Phone, SendPhone(p, u, n)
      PROVE  PhonesInv'
  BY <1>2, <1>4 DEF SendPhone, accounts
<1>5. ASSUME NEW p \in Proc, request' = [request EXCEPT ![p] = Free]
      PROVE  \A q \in Proc : request'[q] = IF q = p THEN Free ELSE request[q]
  BY <1>5 DEF Base, TypeOK
<1>6. Free.pc = "free"
  BY DEF Free
<1>7. ASSUME NEW p \in Proc, PhoneFails(p) PROVE PhonesInv'
  BY <1>5, <1>6, <1>7 DEF PhoneFails, accounts, PhonesInv, At
<1>8. ASSUME NEW p \in Proc, SavePhone(p) PROVE PhonesInv'
  <2> DEFINE u == request[p].user
  <2>1. At(p, "sending", u) /\ u \in User /\ account[u] \in Account
    BY <1>8, RowType DEF SavePhone, At, Base, TypeOK, RequestsFit, SignupsFit
  <2>2. /\ \A v \in User : v # u => account'[v] = account[v]
        /\ account'[u].phoneValidated = account[u].phoneValidated
    BY <1>8, <2>1 DEF SavePhone, Update, Base, TypeOK, Account
  <2>3. UNCHANGED <<approved, overlap>>
    BY <1>8 DEF SavePhone
  <2>4. \A q \in Proc : request'[q] = IF q = p THEN Free ELSE request[q]
    BY <1>5, <1>8 DEF SavePhone
  <2>5. u \notin overlap => /\ ~ account[u].phoneValidated
                            /\ \A q \in Proc : ~ At(q, "confirming", u)
    BY <2>1 DEF PhonesInv
  <2>6. \A q \in Proc, pc \in {"sending", "confirming"}, v \in User :
          At(q, pc, v)' => At(q, pc, v) /\ request'[q] = request[q]
    BY <1>6, <2>4 DEF At
  <2> HIDE DEF u
  <2> QED
    BY <2>1, <2>2, <2>3, <2>5, <2>6 DEF PhonesInv
<1>9. ASSUME NEW p \in Proc, ValidatePhone(p) PROVE PhonesInv'
  <2> DEFINE u == request[p].user
  <2>1. At(p, "confirming", u) /\ u \in User /\ account[u] \in Account
    BY <1>9, RowType DEF ValidatePhone, At, Base, TypeOK, RequestsFit, SignupsFit
  <2>2. /\ \A v \in User : v # u => account'[v] = account[v]
        /\ account'[u].phone = account[u].phone
    BY <1>9, <2>1 DEF ValidatePhone, Update, Base, TypeOK, Account
  <2>3. overlap' = overlap /\ approved' = approved \cup {<<u, request[p].phone>>}
    BY <1>9 DEF ValidatePhone
  <2>4. \A q \in Proc : request'[q] = IF q = p THEN Free ELSE request[q]
    BY <1>5, <1>9 DEF ValidatePhone
  <2>5. u \notin overlap => /\ <<u, account[u].phone>> \in approved'
                            /\ \A q \in Proc : ~ At(q, "sending", u)
    BY <2>1, <2>3 DEF PhonesInv
  <2>6. \A q \in Proc, pc \in {"sending", "confirming"}, v \in User :
          At(q, pc, v)' => At(q, pc, v) /\ request'[q] = request[q]
    BY <1>6, <2>4 DEF At
  <2> HIDE DEF u
  <2> QED
    BY <2>1, <2>2, <2>3, <2>5, <2>6 DEF PhonesInv
<1> QED
  BY <1>1, <1>3, <1>4, <1>7, <1>8, <1>9 DEF PhoneKind, PhoneStep

\* A validated number was approved for its user, unless a send and a confirmation
\* of that user overlapped.
THEOREM ApprovedPhones == Spec => []PhoneIsApproved
<1>1. Init => PhonesInv
  BY DEF Init, PhonesInv, At, Free, None
<1>2. PhonesInv => PhoneIsApproved
  BY DEF PhonesInv, PhoneIsApproved
<1> QED
  BY <1>1, <1>2, BaseCorrect, PhonesNext, PTL DEF Spec

-----------------------------------------------------------------------------
(* Completion and verdicts.                                                *)

Completed(u) == account[u].status = "COMPLETED"

\* Only reviews complete an account or give it a verdict.
LEMMA ReviewFrame ==
  ASSUME Base, [Next]_vars, ~ ReviewKind, ~ ExecKind
  PROVE  /\ UNCHANGED reviews
         /\ \A v \in User : (Completed(v)' <=> Completed(v)) /\ account'[v].kyc = account[v].kyc
<1> USE DEF accounts, phones, reviews
<1> DEFINE Same == \A v \in User : /\ Completed(v)' <=> Completed(v)
                                   /\ account'[v].kyc = account[v].kyc
<1>1. ASSUME NEW u \in User, SignupStep(u) \/ \E e \in Email : SignupCheck(u, e)
      PROVE  UNCHANGED reviews /\ Same
  <2>1. CASE SignupSave(u)
    <3>1. signup[u].email \in Email /\ ~ Exists(u)
      BY <2>1 DEF SignupSave, Base, SignupsFit
    <3>2. account[u] = None /\ account'[u] = New(signup[u].email)
      BY <2>1, <3>1, RowType DEF SignupSave, Base, TypeOK
    <3>3. \A v \in User : v # u => account'[v] = account[v]
      BY <2>1 DEF SignupSave, Base, TypeOK
    <3>4. /\ New(signup[u].email).kyc = None.kyc
          /\ New(signup[u].email).status # "COMPLETED" /\ None.status # "COMPLETED"
      BY DEF New, None
    <3> QED
      BY <2>1, <3>2, <3>3, <3>4 DEF SignupSave, Completed
  <2> QED
    BY <1>1, <2>1 DEF SignupStep, SignupFails, SignupToken, SignupCheck, Completed
<1>2. ASSUME NEW u \in token, NEW n, NEW b,
             \/ account' = [account EXCEPT ![u] = [account[u] EXCEPT !.phone = n]]
             \/ account' = [account EXCEPT ![u] = [account[u] EXCEPT !.phoneValidated = b]]
             \/ account' = [account EXCEPT ![u] = [account[u] EXCEPT !.emailValidated = b]]
      PROVE  Same
  <2>1. u \in User /\ account[u] \in Account
    BY TokenType
  <2>2. \A v \in User : v # u => account'[v] = account[v]
    BY <1>2, <2>1 DEF Base, TypeOK
  <2>3. account'[u].kyc = account[u].kyc
    BY <1>2, <2>1 DEF Base, TypeOK, Account
  <2>4. account'[u].status = account[u].status
    BY <1>2, <2>1 DEF Base, TypeOK, Account
  <2> QED
    BY <2>2, <2>3, <2>4 DEF Completed
<1>3. ASSUME NEW p \in Proc, SavePhone(p) \/ ValidatePhone(p)
      PROVE  UNCHANGED reviews /\ Same
  <2>1. request[p].user \in token
    BY <1>3 DEF SavePhone, ValidatePhone, Base, RequestsFit
  <2> QED
    BY <1>2, <1>3, <2>1 DEF SavePhone, ValidatePhone, Update
<1>4. CASE PhoneKind
  BY <1>3, <1>4 DEF PhoneKind, PhoneStep, PhoneFails, ConfirmPhone, SendPhone, Completed
<1>5. ASSUME NEW u \in User, ConfirmEmail(u) PROVE UNCHANGED reviews /\ Same
  BY <1>2, <1>5 DEF ConfirmEmail, MayVerify, Update
<1>6. CASE RestKind
  BY <1>5, <1>6 DEF RestKind, RegisterCardholder, Completed
<1>7. CASE UNCHANGED vars
  BY <1>7 DEF vars, Completed
<1> QED
  BY <1>1, <1>4, <1>6, <1>7, Kinds DEF Base, SignupKind

\* A transaction that saved a profile is the only one of its user, and the first.
SavedAlone ==
  \A x \in Exec : exec[x].pc = "saved" =>
    /\ exec[x].user \notin profile
    /\ \A y \in Exec : exec[y].pc = "saved" /\ exec[y].user = exec[x].user => x = y

\* What is registered and completed, apart from the rows.
LEMMA RegisteredFrame ==
  ASSUME Base, [Next]_vars, NEW u \in User, registered[u] > 0 => u \in profile
  PROVE  registered'[u] > 0 => u \in profile'
<1> USE DEF accounts, phones, reviews
<1>1. CASE RestKind
  BY <1>1 DEF RestKind, ConfirmEmail, RegisterCardholder, Base, TypeOK
<1>2. CASE UNCHANGED vars
  BY <1>2 DEF vars
<1>3. CASE SignupKind
  BY <1>3 DEF SignupKind, SignupStep, SignupSave, SignupFails, SignupToken, SignupCheck
<1>4. CASE PhoneKind
  BY <1>4 DEF PhoneKind, PhoneStep, SavePhone, ValidatePhone, PhoneFails, ConfirmPhone, SendPhone
<1>5. CASE ReviewKind
  BY <1>5 DEF ReviewKind, Review, GiveUp, Reject
<1>6. CASE ExecKind
  BY <1>6 DEF ExecKind, FetchApplicant, InsertProfile, CompleteFails, Complete
<1> QED
  BY <1>1, <1>2, <1>3, <1>4, <1>5, <1>6, Kinds DEF Base

\* A review that is decided stays what it is.
LEMMA VerdictsKept ==
  ASSUME Base, [Next]_vars
  PROVE  \A v \in User : \A j \in 1..Len(review[v]) : review'[v][j] = review[v][j]
<1> USE DEF accounts, phones, reviews
<1>1. ASSUME NEW u \in User, NEW verdict \in {"GREEN", "RED"}, Review(u, verdict),
             NEW v \in User, NEW j \in 1..Len(review[v])
      PROVE  review'[v][j] = review[v][j]
  <2>1. review'[v] = IF v = u THEN Append(review[u], verdict) ELSE review[v]
    BY <1>1 DEF Review, Base, TypeOK
  <2>2. review[u] \in Seq({"GREEN", "RED"})
    BY DEF Base, TypeOK
  <2>3. CASE v = u
    <3>1. j \in 1..Len(review[u]) /\ review'[v] = Append(review[u], verdict)
      BY <1>1, <2>1, <2>3
    <3>2. Append(review[u], verdict)[j] = review[u][j]
      BY <2>2, <3>1
    <3> QED
      BY <2>3, <3>1, <3>2
  <2> QED
    BY <2>1, <2>3
<1>2. CASE ReviewKind
  BY <1>1, <1>2 DEF ReviewKind, GiveUp, Reject
<1>3. CASE ExecKind
  BY <1>3 DEF ExecKind, FetchApplicant, InsertProfile, CompleteFails, Complete
<1>4. CASE ~ ReviewKind /\ ~ ExecKind
  BY <1>4, ReviewFrame
<1> QED
  BY <1>2, <1>3, <1>4

Flags(u) ==
  /\ u \in profile <=> Completed(u)
  /\ completed[u] = IF u \in profile THEN 1 ELSE 0

Whole(u) ==
  /\ Flags(u)
  /\ u \in profile => \E i \in effect[u] : review[u][i] = "GREEN"
  /\ registered[u] > 0 => u \in profile

CompletionInv == SavedAlone /\ CompletionIsWhole

LEMMA CompletionNext == Base /\ CompletionInv /\ [Next]_vars => CompletionInv'
<1> SUFFICES ASSUME Base, CompletionInv, [Next]_vars PROVE CompletionInv'
  OBVIOUS
<1> USE DEF CompletionInv
<1>a. \A u \in User : registered'[u] > 0 => u \in profile'
  BY RegisteredFrame DEF CompletionIsWhole
\* Enough for the users: the flags go together, and what had an effect stays.
<1>b. ASSUME \A u \in User : Flags(u)',
             \A u \in User : effect[u] \subseteq effect'[u],
             \A u \in User : u \in profile' =>
               u \in profile \/ \E i \in effect'[u] : review'[u][i] = "GREEN"
      PROVE  CompletionIsWhole'
  <2> SUFFICES ASSUME NEW u \in User PROVE Whole(u)'
    BY DEF CompletionIsWhole, Whole, Flags, Completed
  <2>1. \A i \in effect[u] : review'[u][i] = review[u][i]
    BY VerdictsKept DEF Base, ReviewsFit
  <2>2. u \in profile => \E i \in effect[u] : review[u][i] = "GREEN"
    BY DEF CompletionIsWhole
  <2>3. u \in profile' => \E i \in effect'[u] : review'[u][i] = "GREEN"
    BY <1>b, <2>1, <2>2
  <2> QED
    BY <1>a, <1>b, <2>3 DEF Whole
\* No user is completed by the step.
<1>c. ASSUME UNCHANGED <<profile, completed>>, SavedAlone',
             \A u \in User : (Completed(u)' <=> Completed(u)) /\ effect[u] \subseteq effect'[u]
      PROVE  CompletionInv'
  <2>1. \A u \in User : Flags(u)
    BY DEF CompletionIsWhole, Completed, Flags
  <2>2. \A u \in User : Flags(u)'
    BY <1>c, <2>1 DEF Flags, Completed
  <2>3. CompletionIsWhole'
    BY <1>b, <1>c, <2>2
  <2> QED
    BY <1>c, <2>3
<1>1. CASE ~ ReviewKind /\ ~ ExecKind
  <2>1. SavedAlone'
    BY <1>1, ReviewFrame DEF SavedAlone, reviews
  <2> QED
    BY <1>1, <1>c, <2>1, ReviewFrame DEF reviews
<1>2. CASE ReviewKind
  <2>1. UNCHANGED <<profile, completed, exec>>
    BY <1>2 DEF ReviewKind, Review, GiveUp, Reject
  <2>2. \A v \in User : (Completed(v)' <=> Completed(v)) /\ effect[v] \subseteq effect'[v]
    <3>1. ASSUME NEW u \in User, NEW i \in 1..MaxReview,
                 NEW answer \in {"closed", "failed"}, Reject(u, i, answer),
                 NEW v \in User
          PROVE  (Completed(v)' <=> Completed(v)) /\ effect[v] \subseteq effect'[v]
      <4>0. u \in token
        BY <3>1 DEF Reject, Deliverable, Base, TypeOK, ReviewsFit
      <4>1. account[u] \in Account
        BY <4>0, TokenType
      <4>2. account' = [account EXCEPT ![u] = [account[u] EXCEPT !.kyc = "REJECTED"]]
        BY <3>1 DEF Reject, Update
      <4>3. account'[v].status = account[v].status
        BY <4>1, <4>2 DEF Base, TypeOK, Account
      <4> QED
        BY <3>1, <4>3 DEF Reject, Completed, Base, TypeOK
    <3> QED
      BY <1>2, <3>1 DEF ReviewKind, Review, GiveUp, Completed, accounts
  <2> QED
    BY <1>c, <2>1, <2>2 DEF SavedAlone
<1>3. ASSUME NEW x \in Exec, NEW u \in User, NEW i \in 1..MaxReview, FetchApplicant(x, u, i)
      PROVE  CompletionInv'
  <2>1. UNCHANGED <<account, profile, completed, effect>>
    BY <1>3 DEF FetchApplicant, accounts
  <2>2. \A y \in Exec : exec'[y].pc = "saved" => exec'[y] = exec[y]
    BY <1>3 DEF FetchApplicant, Base, TypeOK
  <2>3. SavedAlone'
    BY <2>1, <2>2 DEF SavedAlone
  <2> QED
    BY <1>c, <2>1, <2>3 DEF Completed
<1>4. ASSUME NEW x \in Exec, InsertProfile(x) PROVE CompletionInv'
  <2>1. UNCHANGED <<account, profile, completed, effect>>
    BY <1>4 DEF InsertProfile, accounts
  <2>2. \A y \in Exec : y # x => exec'[y] = exec[y]
    BY <1>4 DEF InsertProfile, Base, TypeOK
  <2>3. exec'[x].user = exec[x].user /\ exec[x].user \notin profile
    BY <1>4 DEF InsertProfile, Base, TypeOK
  <2>4. \A y \in Exec : ~ (exec[y].pc = "saved" /\ exec[y].user = exec[x].user)
    BY <1>4 DEF InsertProfile, Locked
  <2>5. SavedAlone'
    BY <2>1, <2>2, <2>3, <2>4 DEF SavedAlone
  <2> QED
    BY <1>c, <2>1, <2>5 DEF Completed
<1>5. ASSUME NEW x \in Exec, CompleteFails(x) PROVE CompletionInv'
  <2>1. UNCHANGED <<account, profile, completed, effect>>
    BY <1>5 DEF CompleteFails, accounts
  <2>2. \A y \in Exec : exec'[y].pc = "saved" => exec'[y] = exec[y]
    BY <1>5 DEF CompleteFails, FreeExec, Base, TypeOK
  <2>3. SavedAlone'
    BY <2>1, <2>2 DEF SavedAlone
  <2> QED
    BY <1>c, <2>1, <2>3 DEF Completed
<1>6. ASSUME NEW x \in Exec, NEW answer \in {"closed", "failed"}, Complete(x, answer)
      PROVE  CompletionInv'
  <2> DEFINE u == exec[x].user
             i == exec[x].index
  <2>1. /\ exec[x].pc = "saved" /\ u \in User /\ account[u] \in Account
        /\ i \in 1..Len(review[u]) /\ review[u][i] = "GREEN" /\ u \notin profile
    BY <1>6, TokenType DEF Complete, Base, ExecsFit, SavedAlone
  <2>2. \A v \in User : Completed(v)' <=> (Completed(v) \/ v = u)
    BY <1>6, <2>1 DEF Complete, Completed, Base, TypeOK, Account
  <2>3. profile' = profile \cup {u} /\ review' = review
    BY <1>6 DEF Complete
  <2>4. \A v \in User : /\ completed'[v] = IF v = u THEN completed[v] + 1 ELSE completed[v]
                        /\ effect'[v] = IF v = u THEN effect[v] \cup {i} ELSE effect[v]
    BY <1>6, <2>1 DEF Complete, Base, TypeOK
  <2>5. \A y \in Exec : exec'[y].pc = "saved" => y # x /\ exec'[y] = exec[y]
    BY <1>6 DEF Complete, FreeExec, Base, TypeOK
  <2>6. completed[u] = 0
    BY <2>1 DEF CompletionIsWhole
  <2>7. SavedAlone'
    BY <2>1, <2>3, <2>5 DEF SavedAlone
  <2>8. \A v \in User : Flags(v)
    BY DEF CompletionIsWhole, Completed, Flags
  <2>9. \A v \in User : Flags(v)'
    <3> SUFFICES ASSUME NEW v \in User PROVE Flags(v)'
      OBVIOUS
    <3>1. Completed(v)' <=> (Completed(v) \/ v = u)
      BY <2>2
    <3>2. CASE v = u
      <4> HIDE DEF u
      <4>0. completed'[u] = completed[u] + 1
        BY <2>1, <2>4
      <4>1. completed'[u] = 1 /\ u \in profile'
        BY <2>3, <2>6, <4>0
      <4> QED
        BY <3>1, <3>2, <4>1 DEF Flags
    <3>3. CASE v # u
      <4>1. completed'[v] = completed[v] /\ (v \in profile' <=> v \in profile)
        BY <2>3, <2>4, <3>3
      <4> QED
        BY <2>8, <3>1, <3>3, <4>1 DEF Flags
    <3> QED
      BY <3>2, <3>3
  <2>9a. \A v \in User : effect[v] \subseteq effect'[v]
    BY <2>4
  <2>10. \A v \in User : v \in profile' =>
           v \in profile \/ \E j \in effect'[v] : review'[v][j] = "GREEN"
    BY <2>1, <2>3, <2>4
  <2>11. CompletionIsWhole'
    BY <1>b, <2>9, <2>9a, <2>10
  <2> QED
    BY <2>7, <2>11
<1> QED
  BY <1>1, <1>2, <1>3, <1>4, <1>5, <1>6 DEF ExecKind

\* An account is completed at most once and as a whole, for any number of reviews
\* and of deliveries at once.
THEOREM WholeCompletion == Spec => []CompletionIsWhole
<1>1. Init => CompletionInv
  BY DEF Init, CompletionInv, SavedAlone, CompletionIsWhole, FreeExec, None
<1>2. CompletionInv => CompletionIsWhole
  BY DEF CompletionInv
<1> QED
  BY <1>1, <1>2, BaseCorrect, CompletionNext, PTL DEF Spec

(***************************************************************************)
(* With the types of all rows and requests, an account is completed as a   *)
(* whole and at most once.                                                 *)
(***************************************************************************)
THEOREM OnboardingIsSafe == Spec => []OnboardingSafe
BY TypeCorrect, WholeCompletion, PTL DEF OnboardingSafe

\* The last review of u that had an effect gave its verdict.
LastVerdict(u) ==
  \/ effect[u] = {} /\ account[u].kyc = "NOT_STARTED"
  \/ \E i \in effect[u] : /\ \A j \in effect[u] : j <= i
                          /\ account[u].kyc = Verdict(review[u][i])

\* Events are closed in order: those before an event that is not open are closed,
\* and those around one that is being handled are closed before and open after.
InOrder(u) ==
  /\ \A i \in 1..MaxReview : notice[u][i] # "open" =>
       \A j \in 1..MaxReview : j < i => notice[u][j] = "closed"
  /\ \A x \in Exec : exec[x].user = u =>
       \A j \in 1..MaxReview : /\ j < exec[x].index => notice[u][j] = "closed"
                               /\ j > exec[x].index => notice[u][j] = "open"
  /\ \A x, y \in Exec : exec[x].user = u /\ exec[y].user = u => x = y
  /\ \A i \in effect[u] : notice[u][i] # "open"

VerdictInv == \A u \in User \ disorder : InOrder(u) /\ LastVerdict(u)

LEMMA LastVerdictKept ==
  ASSUME Base, [Next]_vars, NEW u \in User, LastVerdict(u),
         effect'[u] = effect[u], account'[u].kyc = account[u].kyc
  PROVE  LastVerdict(u)'
<1>1. \A i \in effect[u] : review'[u][i] = review[u][i]
  BY VerdictsKept DEF Base, ReviewsFit
<1> QED
  BY <1>1 DEF LastVerdict

\* A review that has its effect in order is later than those that had theirs.
LEMMA LastVerdictNew ==
  ASSUME Base, NEW u \in User, NEW i \in 1..MaxReview, InOrder(u),
         \A j \in 1..MaxReview : j > i => notice[u][j] = "open",
         review' = review, effect'[u] = effect[u] \cup {i},
         account'[u].kyc = Verdict(review[u][i])
  PROVE  LastVerdict(u)'
<1>1. \A j \in effect[u] : j \in 1..MaxReview /\ notice[u][j] # "open"
  BY DEF InOrder, Base, TypeOK
<1>2. \A j \in effect'[u] : j <= i
  BY <1>1
<1> QED
  BY <1>2 DEF LastVerdict

\* An event of u that is being closed leaves those around it as they are.
LEMMA InOrderClose ==
  ASSUME Base, NEW u \in User, NEW i \in 1..MaxReview, NEW to \in {"closed", "failed"},
         InOrder(u), Close(u, i, to),
         \A j \in 1..MaxReview : /\ j < i => notice[u][j] = "closed"
                                 /\ j > i => notice[u][j] = "open",
         \A x \in Exec : exec'[x].user = u => exec'[x] = exec[x] /\ exec[x].index = i,
         effect'[u] \subseteq effect[u] \cup {i}
  PROVE  InOrder(u)'
<1>1. \A j \in 1..MaxReview : notice'[u][j] = IF j = i THEN to ELSE notice[u][j]
  BY DEF Close, Base, TypeOK
<1>2. \A j \in effect[u] : j \in 1..MaxReview
  BY DEF Base, TypeOK
<1>3. \A j \in effect'[u] : notice'[u][j] # "open"
  BY <1>1, <1>2 DEF InOrder
<1>4. ASSUME NEW k \in 1..MaxReview, notice'[u][k] # "open",
             NEW j \in 1..MaxReview, j < k
      PROVE  notice'[u][j] = "closed"
  <2>1. ~ (k > i)
    <3> SUFFICES ASSUME k > i PROVE FALSE
      OBVIOUS
    <3>1. notice[u][k] = "open" /\ k # i
      OBVIOUS
    <3> QED
      BY <1>1, <1>4, <3>1
  <2>2. j < i
    BY <1>4, <2>1, OnboardingAssumption
  <2>3. notice[u][j] = "closed"
    BY <2>2
  <2>4. j # i
    BY <2>2
  <2> QED
    BY <1>1, <2>3, <2>4
<1>5. ASSUME NEW x \in Exec, exec'[x].user = u, NEW j \in 1..MaxReview
      PROVE  /\ j < exec'[x].index => notice'[u][j] = "closed"
             /\ j > exec'[x].index => notice'[u][j] = "open"
  <2>1. exec'[x].index = i
    BY <1>5
  <2>2. /\ j < i => notice[u][j] = "closed"
        /\ j > i => notice[u][j] = "open"
    OBVIOUS
  <2>3. j < i \/ j > i => j # i
    OBVIOUS
  <2> QED
    BY <1>1, <2>1, <2>2, <2>3
<1>6. \A x, y \in Exec : exec'[x].user = u /\ exec'[y].user = u => x = y
  BY DEF InOrder
<1> QED
  BY <1>3, <1>4, <1>5, <1>6 DEF InOrder

LEMMA VerdictNext == Base /\ VerdictInv /\ [Next]_vars => VerdictInv'
<1> SUFFICES ASSUME Base, VerdictInv, [Next]_vars, NEW v \in User, v \notin disorder'
             PROVE  InOrder(v)' /\ LastVerdict(v)'
  BY DEF VerdictInv
<1> USE DEF accounts, phones, reviews
<1>0. MaxReview \in Nat
  BY OnboardingAssumption
<1>a. disorder \subseteq disorder'
  <2>1. CASE ReviewKind
    BY <2>1 DEF ReviewKind, Review, GiveUp, Reject, Delivered
  <2>2. CASE ExecKind
    BY <2>2 DEF ExecKind, FetchApplicant, InsertProfile, CompleteFails, Complete, Delivered
  <2> QED
    BY <2>1, <2>2, ReviewFrame
<1>b. InOrder(v) /\ LastVerdict(v)
  BY <1>a DEF VerdictInv
\* A step about another user, or one that delivers nothing.
<1>c. ASSUME UNCHANGED <<notice[v], effect[v], account[v].kyc>>,
             \A x \in Exec : exec'[x].user = v =>
               exec[x].user = v /\ exec'[x].index = exec[x].index
      PROVE  InOrder(v)' /\ LastVerdict(v)'
  <2>1. LastVerdict(v)'
    BY <1>b, <1>c, LastVerdictKept
  <2>2. InOrder(v)'
    BY <1>b, <1>c DEF InOrder
  <2> QED
    BY <2>1, <2>2
<1>1. CASE ~ ReviewKind /\ ~ ExecKind
  BY <1>1, <1>c, ReviewFrame
<1>2. ASSUME NEW u \in User, NEW verdict \in {"GREEN", "RED"}, Review(u, verdict)
      PROVE  InOrder(v)' /\ LastVerdict(v)'
  BY <1>2, <1>c DEF Review
<1>3. ASSUME NEW u \in User, NEW i \in 1..MaxReview, GiveUp(u, i)
      PROVE  InOrder(v)' /\ LastVerdict(v)'
  <2>1. UNCHANGED <<account, effect, exec>> /\ Close(u, i, "closed") /\ notice[u][i] = "failed"
    BY <1>3 DEF GiveUp
  <2>2. \A w \in User : \A j \in 1..MaxReview :
          notice'[w][j] = IF w = u /\ j = i THEN "closed" ELSE notice[w][j]
    BY <2>1 DEF Close, Base, TypeOK
  <2>3. LastVerdict(v)'
    BY <1>b, <2>1, LastVerdictKept
  <2>4. \A j \in 1..MaxReview : /\ notice[v][j] = "closed" => notice'[v][j] = "closed"
                                /\ notice[v][j] = "open" <=> notice'[v][j] = "open"
    BY <2>1, <2>2
  <2>5. \A j \in effect[v] : j \in 1..MaxReview
    BY DEF Base, TypeOK
  <2>6. InOrder(v)'
    <3>1. \A k \in 1..MaxReview : notice'[v][k] # "open" =>
            \A j \in 1..MaxReview : j < k => notice'[v][j] = "closed"
      <4> SUFFICES ASSUME NEW k \in 1..MaxReview, notice'[v][k] # "open",
                          NEW j \in 1..MaxReview, j < k
                   PROVE  notice'[v][j] = "closed"
        OBVIOUS
      <4>1. notice[v][k] # "open"
        BY <2>4
      <4>2. notice[v][j] = "closed"
        BY <1>b, <4>1 DEF InOrder
      <4> QED
        BY <2>4, <4>2
    <3>2. \A x \in Exec : exec[x].user = v =>
            \A j \in 1..MaxReview : /\ j < exec[x].index => notice'[v][j] = "closed"
                                    /\ j > exec[x].index => notice'[v][j] = "open"
      <4> SUFFICES ASSUME NEW x \in Exec, exec[x].user = v, NEW j \in 1..MaxReview
                   PROVE  /\ j < exec[x].index => notice'[v][j] = "closed"
                          /\ j > exec[x].index => notice'[v][j] = "open"
        OBVIOUS
      <4>1. /\ j < exec[x].index => notice[v][j] = "closed"
            /\ j > exec[x].index => notice[v][j] = "open"
        BY <1>b DEF InOrder
      <4> QED
        BY <2>4, <4>1
    <3>3. \A j \in effect[v] : notice'[v][j] # "open"
      BY <1>b, <2>4, <2>5 DEF InOrder
    <3> QED
      BY <1>b, <2>1, <3>1, <3>2, <3>3 DEF InOrder
  <2> QED
    BY <2>3, <2>6
<1>4. ASSUME NEW u \in User, NEW i \in 1..MaxReview, NEW answer \in {"closed", "failed"},
             Reject(u, i, answer)
      PROVE  InOrder(v)' /\ LastVerdict(v)'
  <2>1. /\ account' = [account EXCEPT ![u] = [account[u] EXCEPT !.kyc = "REJECTED"]]
        /\ effect' = [effect EXCEPT ![u] = @ \cup {i}]
        /\ Close(u, i, answer) /\ UNCHANGED <<exec, review>>
        /\ i \in 1..Len(review[u]) /\ review[u][i] = "RED" /\ notice[u][i] # "closed"
    BY <1>4 DEF Reject, Update, Deliverable
  <2>2. CASE v # u
    <3>1. UNCHANGED <<notice[v], effect[v], account[v]>>
      BY <2>1, <2>2 DEF Close, Base, TypeOK
    <3> QED
      BY <1>c, <2>1, <3>1
  <2>3. CASE v = u
    <3>1. /\ \A j \in 1..(i - 1) : notice[u][j] = "closed"
          /\ \A x \in Exec : exec[x].user # u
      BY <1>4, <2>3 DEF Reject, Delivered
    <3>2. \A j \in 1..MaxReview : /\ j < i => notice[u][j] = "closed"
                                  /\ j > i => notice[u][j] = "open"
      BY <1>0, <1>b, <2>1, <2>3, <3>1 DEF InOrder
    <3>3. effect'[u] = effect[u] \cup {i}
      BY <2>1 DEF Base, TypeOK
    <3>4. account[u] \in Account
      <4>1. u \in token
        BY <2>1 DEF Base, TypeOK, ReviewsFit
      <4> QED
        BY <4>1, TokenType
    <3>5. account'[u].kyc = Verdict(review[u][i])
      BY <2>1, <3>4 DEF Verdict, Base, TypeOK, Account
    <3>6. LastVerdict(u)'
      BY <1>b, <2>1, <2>3, <3>2, <3>3, <3>5, LastVerdictNew
    <3>7. InOrder(u)'
      BY <1>b, <2>1, <2>3, <3>1, <3>2, <3>3, InOrderClose
    <3> QED
      BY <2>3, <3>6, <3>7
  <2> QED
    BY <2>2, <2>3
<1>5. ASSUME NEW x \in Exec, NEW u \in User, NEW i \in 1..MaxReview, FetchApplicant(x, u, i)
      PROVE  InOrder(v)' /\ LastVerdict(v)'
  <2>1. /\ UNCHANGED <<notice, effect, account>>
        /\ exec' = [exec EXCEPT ![x] = [pc |-> "fetched", user |-> u, index |-> i]]
        /\ notice[u][i] # "closed" /\ exec[x].pc = "free"
    BY <1>5 DEF FetchApplicant, Deliverable
  <2>2. \A y \in Exec : exec'[y] = IF y = x THEN [pc |-> "fetched", user |-> u, index |-> i]
                                         ELSE exec[y]
    BY <2>1 DEF Base, TypeOK
  <2>3. CASE v # u
    <3>1. \A y \in Exec : exec'[y].user = v =>
            exec[y].user = v /\ exec'[y].index = exec[y].index
      BY <2>2, <2>3
    <3> QED
      BY <1>c, <2>1, <3>1
  <2>4. CASE v = u
    <3>1. /\ \A j \in 1..(i - 1) : notice[u][j] = "closed"
          /\ \A y \in Exec : exec[y].user # u
      BY <1>5, <2>4 DEF FetchApplicant, Delivered
    <3>2. \A j \in 1..MaxReview : /\ j < i => notice[u][j] = "closed"
                                  /\ j > i => notice[u][j] = "open"
      BY <1>0, <1>b, <2>1, <2>4, <3>1 DEF InOrder
    <3>3. \A y \in Exec : exec'[y].user = u => y = x /\ exec'[y].index = i
      BY <2>2, <3>1
    <3>4. InOrder(u)'
      BY <1>b, <2>1, <2>4, <3>2, <3>3 DEF InOrder
    <3>5. LastVerdict(u)'
      BY <1>b, <2>1, <2>4, LastVerdictKept
    <3> QED
      BY <2>4, <3>4, <3>5
  <2> QED
    BY <2>3, <2>4
<1>6. ASSUME NEW x \in Exec, InsertProfile(x) PROVE InOrder(v)' /\ LastVerdict(v)'
  <2>1. UNCHANGED <<notice, effect, account>> /\ exec' = [exec EXCEPT ![x].pc = "saved"]
    BY <1>6 DEF InsertProfile
  <2>2. \A y \in Exec : exec'[y].user = exec[y].user /\ exec'[y].index = exec[y].index
    BY <2>1 DEF Base, TypeOK
  <2> QED
    BY <1>c, <2>1, <2>2
\* A delivery that ends was the only one of its user.
<1>d. ASSUME NEW x \in Exec, exec[x].pc # "free",
             exec' = [exec EXCEPT ![x] = FreeExec]
      PROVE  /\ exec[x].user \in token
             /\ exec[x].index \in 1..MaxReview
             /\ exec[x].index \in 1..Len(review[exec[x].user])
             /\ review[exec[x].user][exec[x].index] = "GREEN"
             /\ \A w \in User, y \in Exec : exec'[y].user = w => y # x /\ exec'[y] = exec[y]
  <2>1. FreeExec.user = Null /\ Null \notin User
    BY OnboardingAssumption DEF FreeExec
  <2> QED
    BY <1>d, <2>1, <1>0 DEF Base, TypeOK, ExecsFit, ReviewsFit
<1>7. ASSUME NEW x \in Exec, CompleteFails(x) PROVE InOrder(v)' /\ LastVerdict(v)'
  <2> DEFINE u == exec[x].user
             i == exec[x].index
  <2>1. /\ UNCHANGED <<effect, account>> /\ Close(u, i, "failed")
        /\ exec' = [exec EXCEPT ![x] = FreeExec] /\ exec[x].pc # "free"
    BY <1>7 DEF CompleteFails
  <2>2. u \in User /\ i \in 1..MaxReview
        /\ \A y \in Exec : exec'[y].user = v => y # x /\ exec'[y] = exec[y]
    BY <1>d, <2>1, TokenType
  <2>3. CASE v # u
    <3>1. notice'[v] = notice[v]
      BY <2>1, <2>3 DEF Close, Base, TypeOK
    <3> QED
      BY <1>c, <2>1, <2>2, <3>1
  <2>4. CASE v = u
    <3>1. \A j \in 1..MaxReview : /\ j < i => notice[u][j] = "closed"
                                  /\ j > i => notice[u][j] = "open"
      BY <1>b, <2>4 DEF InOrder
    <3>2. \A y \in Exec : exec'[y].user # u
      BY <1>b, <2>2, <2>4 DEF InOrder
    <3> HIDE DEF u, i
    <3>3. InOrder(v)'
      BY <1>b, <2>1, <2>2, <2>4, <3>1, <3>2, InOrderClose
    <3>4. LastVerdict(v)'
      BY <1>b, <2>1, <2>4, LastVerdictKept
    <3> QED
      BY <3>3, <3>4
  <2> QED
    BY <2>3, <2>4
<1>8. ASSUME NEW x \in Exec, NEW answer \in {"closed", "failed"}, Complete(x, answer)
      PROVE  InOrder(v)' /\ LastVerdict(v)'
  <2> DEFINE u == exec[x].user
             i == exec[x].index
  <2>1. /\ account' = [account EXCEPT ![u].status = "COMPLETED", ![u].kyc = "VALIDATED"]
        /\ effect' = [effect EXCEPT ![u] = @ \cup {i}] /\ Close(u, i, answer)
        /\ exec' = [exec EXCEPT ![x] = FreeExec] /\ exec[x].pc # "free" /\ review' = review
    BY <1>8 DEF Complete
  <2>2. /\ u \in User /\ i \in 1..MaxReview /\ account[u] \in Account
        /\ i \in 1..Len(review[u]) /\ review[u][i] = "GREEN"
        /\ \A y \in Exec : exec'[y].user = v => y # x /\ exec'[y] = exec[y]
    BY <1>d, <2>1, TokenType
  <2>3. CASE v # u
    <3>1. UNCHANGED <<notice[v], effect[v], account[v]>>
      BY <2>1, <2>3 DEF Close, Base, TypeOK
    <3> QED
      BY <1>c, <2>2, <3>1
  <2>4. CASE v = u
    <3>1. \A j \in 1..MaxReview : /\ j < i => notice[u][j] = "closed"
                                  /\ j > i => notice[u][j] = "open"
      BY <1>b, <2>4 DEF InOrder
    <3>2. \A y \in Exec : exec'[y].user # u
      BY <1>b, <2>2, <2>4 DEF InOrder
    <3>3. effect'[u] = effect[u] \cup {i}
      BY <2>1, <2>2 DEF Base, TypeOK
    <3>4. account'[u].kyc = Verdict(review[u][i])
      BY <2>1, <2>2 DEF Verdict, Base, TypeOK, Account
    <3> HIDE DEF u, i
    <3>5. InOrder(v)'
      BY <1>b, <2>1, <2>2, <2>4, <3>1, <3>2, <3>3, InOrderClose
    <3>6. LastVerdict(v)'
      <4>1. /\ \A j \in 1..MaxReview : j > i => notice[v][j] = "open"
            /\ effect'[v] = effect[v] \cup {i}
            /\ account'[v].kyc = Verdict(review[v][i])
        BY <2>4, <3>1, <3>3, <3>4
      <4> QED
        BY <1>b, <2>1, <2>2, <4>1, LastVerdictNew
    <3> QED
      BY <3>5, <3>6
  <2> QED
    BY <2>3, <2>4
<1> QED
  BY <1>1, <1>2, <1>3, <1>4, <1>5, <1>6, <1>7, <1>8 DEF ReviewKind, ExecKind

\* While reviews are delivered one at a time and in order, the verdict in the row
\* is the one of the last that had an effect, for any number of reviews.
THEOREM LastReviewDecides == Spec => []KycIsLastReview
<1>1. Init => VerdictInv
  BY OnboardingAssumption
     DEF Init, VerdictInv, InOrder, LastVerdict, FreeExec, None
<1>2. Base /\ VerdictInv => KycIsLastReview
  <2> SUFFICES ASSUME Base, VerdictInv, NEW u \in User \ disorder
               PROVE  account[u].kyc =
                        IF effect[u] = {} THEN "NOT_STARTED"
                        ELSE LET last == CHOOSE i \in effect[u] : \A j \in effect[u] : j <= i
                             IN Verdict(review[u][last])
    BY DEF KycIsLastReview
  <2>1. CASE effect[u] = {}
    BY <2>1 DEF VerdictInv, LastVerdict
  <2>2. CASE effect[u] # {}
    <3>1. PICK i \in effect[u] : /\ \A j \in effect[u] : j <= i
                                 /\ account[u].kyc = Verdict(review[u][i])
      BY <2>2 DEF VerdictInv, LastVerdict
    <3> DEFINE last == CHOOSE k \in effect[u] : \A j \in effect[u] : j <= k
    <3>2. last \in effect[u] /\ \A j \in effect[u] : j <= last
      BY <3>1
    <3>3. i \in Nat /\ last \in Nat
      BY <3>1, <3>2, OnboardingAssumption DEF Base, TypeOK
    <3>4. last = i
      BY <3>1, <3>2, <3>3
    <3> QED
      BY <2>2, <3>1, <3>4
  <2> QED
    BY <2>1, <2>2
<1> QED
  BY <1>1, <1>2, BaseCorrect, VerdictNext, PTL DEF Spec

-----------------------------------------------------------------------------
(***************************************************************************)
(* CodesBuyOnce for any users, mailboxes and number of confirmations at    *)
(* once.  The invariant it needs beside itself is that a confirmation      *)
(* under way names a mailbox.                                              *)
(***************************************************************************)

CallsNameMailboxes ==
  \A c \in Call : call[c].pc # "free" => call[c].mailbox \in Mailbox

Paid ==
  \A m \in Mailbox : given[m] + Cardinality(Granting(m)) <= approvals[m]

ChangedByCode ==
  \A h \in Holder : email[h] # FirstEmail[h] => approvals[email[h]] > 0

CodesInv == CodesTypeOK /\ CallsNameMailboxes /\ Paid /\ ChangedByCode

LEMMA GrantingCounts ==
  \A m \in Mailbox : IsFiniteSet(Granting(m)) /\ Cardinality(Granting(m)) \in Nat
<1> TAKE m \in Mailbox
<1>1. Granting(m) \subseteq Call
  BY DEF Granting
<1> QED
  BY <1>1, CodesAssumption, FS_Subset, FS_CardinalityType

LEMMA CodesStart == CodesInit => CodesInv
<1> SUFFICES ASSUME CodesInit PROVE CodesInv
  OBVIOUS
<1> USE CodesAssumption
<1>1. CodesTypeOK
  BY DEF CodesInit, CodesTypeOK, NoCall, Purpose
<1>2. CallsNameMailboxes /\ ChangedByCode
  BY DEF CodesInit, CallsNameMailboxes, ChangedByCode, NoCall
<1>3. \A m \in Mailbox : Granting(m) = {}
  BY DEF CodesInit, Granting, NoCall
<1>4. Paid
  BY <1>3, FS_EmptySet DEF CodesInit, Paid
<1> QED
  BY <1>1, <1>2, <1>4 DEF CodesInv

-----------------------------------------------------------------------------
(* Who grants what after a step.                                           *)

\* A step that lets no confirmation through and counts nothing less.
LEMMA NobodyPasses ==
  ASSUME CodesInv, CodesTypeOK',
         \A c \in Call : call'[c].pc = "granting" /\ call'[c].purpose # "signup"
           => call[c].pc = "granting" /\ call'[c] = call[c],
         UNCHANGED <<email, approvals, given>>
  PROVE  Paid' /\ ChangedByCode'
<1>1. \A m \in Mailbox : Granting(m)' \subseteq Granting(m)
  BY DEF Granting
<1>2. ASSUME NEW m \in Mailbox
      PROVE  given'[m] + Cardinality(Granting(m)') <= approvals'[m]
  <2>1. /\ Cardinality(Granting(m)') <= Cardinality(Granting(m))
        /\ Cardinality(Granting(m)') \in Nat
    BY <1>1, GrantingCounts, FS_Subset, FS_CardinalityType
  <2>2. /\ given[m] + Cardinality(Granting(m)) <= approvals[m]
        /\ given[m] \in Nat /\ approvals[m] \in Nat
    BY DEF CodesInv, Paid, CodesTypeOK
  <2> QED
    BY <2>1, <2>2, GrantingCounts
<1>3. ChangedByCode'
  BY DEF CodesInv, ChangedByCode
<1> QED
  BY <1>2, <1>3 DEF Paid

\* A code is approved: one more confirmation may grant, of its mailbox.
LEMMA ApprovedStep ==
  ASSUME CodesInv, NEW c \in Call, Approves(c)
  PROVE  CodesInv'
<1> USE CodesAssumption
<1> DEFINE m == call[c].mailbox
<1>0. CodesTypeOK /\ m \in Mailbox
  BY DEF CodesInv, CallsNameMailboxes, Approves
<1>1. /\ \A d \in Call \ {c} : call'[d] = call[d]
      /\ call'[c] = [call[c] EXCEPT !.pc = "granting"]
      /\ call[c].pc = "asked"
  BY <1>0 DEF Approves, CodesTypeOK
<1>2. /\ approvals'[m] = approvals[m] + 1
      /\ \A n \in Mailbox \ {m} : approvals'[n] = approvals[n]
      /\ \A n \in Mailbox : approvals[n] \in 0 .. MaxApproved
      /\ approvals' \in [Mailbox -> 0 .. MaxApproved]
  BY <1>0 DEF Approves, CodesTypeOK
<1>3. CodesTypeOK'
  <2>1. call' \in [Call -> [pc : {"free", "asked", "granting"}, purpose : Purpose,
                            holder : Holder \cup {NoHolder},
                            mailbox : Mailbox \cup {NoMailbox}]]
    BY <1>0 DEF Approves, CodesTypeOK
  <2> QED
    BY <1>0, <1>2, <2>1 DEF Approves, CodesTypeOK
<1>4. CallsNameMailboxes'
  BY <1>0, <1>1 DEF CodesInv, CallsNameMailboxes, CodesTypeOK
<1>5. ASSUME NEW n \in Mailbox
      PROVE  given'[n] + Cardinality(Granting(n)') <= approvals'[n]
  <2>1. given'[n] = given[n] /\ given[n] \in Nat
    BY <1>0 DEF Approves, CodesTypeOK
  <2>2. given[n] + Cardinality(Granting(n)) <= approvals[n]
    BY DEF CodesInv, Paid
  <2>3. approvals[n] \in Nat
    BY <1>2
  <2>4. CASE n = m
    <3>1. /\ Granting(n)' \subseteq Granting(n) \cup {c}
          /\ c \notin Granting(n)
      BY <1>0, <1>1 DEF Granting, CodesTypeOK
    <3>2. /\ IsFiniteSet(Granting(n) \cup {c})
          /\ Cardinality(Granting(n) \cup {c}) = Cardinality(Granting(n)) + 1
      BY <3>1, GrantingCounts, FS_AddElement
    <3>3. /\ Cardinality(Granting(n)') <= Cardinality(Granting(n)) + 1
          /\ Cardinality(Granting(n)') \in Nat
      BY <3>1, <3>2, FS_Subset, FS_CardinalityType
    <3> QED
      BY <1>2, <2>1, <2>2, <2>3, <2>4, <3>3, GrantingCounts
  <2>5. CASE n # m
    <3>1. Granting(n)' = Granting(n)
      BY <1>0, <1>1, <2>5 DEF Granting, CodesTypeOK
    <3> QED
      BY <1>2, <2>1, <2>2, <2>5, <3>1
  <2> QED
    BY <2>4, <2>5
<1>6. ChangedByCode'
  <2>1. \A n \in Mailbox : approvals[n] > 0 => approvals'[n] > 0
    BY <1>0, <1>2
  <2> QED
    BY <1>0, <2>1 DEF CodesInv, ChangedByCode, Approves, CodesTypeOK
<1> QED
  BY <1>3, <1>4, <1>5, <1>6 DEF CodesInv, Paid

\* What is granted was counted as about to be.
LEMMA GivenStep ==
  ASSUME CodesInv, NEW c \in Call, GrantToken(c) \/ GrantChange(c)
  PROVE  CodesInv'
<1> USE CodesAssumption
<1> DEFINE m == call[c].mailbox
<1>0. CodesTypeOK /\ m \in Mailbox
  BY DEF CodesInv, CallsNameMailboxes, GrantToken, GrantChange, Grants
<1>1. /\ call' = [call EXCEPT ![c] = NoCall]
      /\ \A d \in Call \ {c} : call'[d] = call[d]
      /\ call'[c] = NoCall
      /\ call[c].pc = "granting" /\ call[c].purpose # "signup"
  BY <1>0 DEF GrantToken, GrantChange, Grants, CodesTypeOK, Reset
<1>2. /\ given'[m] = given[m] + 1
      /\ \A n \in Mailbox \ {m} : given'[n] = given[n]
      /\ \A n \in Mailbox : given[n] \in Nat /\ approvals[n] \in Nat
      /\ given' \in [Mailbox -> Nat]
      /\ UNCHANGED <<pending, approvals>>
  BY <1>0 DEF GrantToken, GrantChange, Grants, CodesTypeOK
<1>3. /\ email' \in [Holder -> Mailbox] /\ validated' \in [Holder -> BOOLEAN]
      /\ \A h \in Holder : email'[h] = email[h] \/ email'[h] = m
  BY <1>0 DEF GrantToken, GrantChange, CodesTypeOK
<1>4. CodesTypeOK'
  <2>1. call' \in [Call -> [pc : {"free", "asked", "granting"}, purpose : Purpose,
                            holder : Holder \cup {NoHolder},
                            mailbox : Mailbox \cup {NoMailbox}]]
    BY <1>0, <1>1 DEF CodesTypeOK, NoCall, Purpose
  <2> QED
    BY <1>0, <1>2, <1>3, <2>1 DEF CodesTypeOK
<1>5. CallsNameMailboxes'
  BY <1>1 DEF CodesInv, CallsNameMailboxes, NoCall
<1>6. c \in Granting(m)
  BY <1>1 DEF Granting
<1>7. ASSUME NEW n \in Mailbox
      PROVE  given'[n] + Cardinality(Granting(n)') <= approvals'[n]
  <2>1. given[n] + Cardinality(Granting(n)) <= approvals[n]
    BY DEF CodesInv, Paid
  <2>2. Granting(n)' = Granting(n) \ {c}
    BY <1>1 DEF Granting, NoCall
  <2>3. CASE n = m
    <3>1. Cardinality(Granting(n) \ {c}) = Cardinality(Granting(n)) - 1
      BY <1>6, <2>3, GrantingCounts, FS_RemoveElement
    <3> QED
      BY <1>2, <2>1, <2>2, <2>3, <3>1, GrantingCounts
  <2>4. CASE n # m
    <3>1. Granting(n)' = Granting(n)
      BY <1>1, <2>2, <2>4 DEF Granting
    <3> QED
      BY <1>2, <2>1, <2>4, <3>1
  <2> QED
    BY <2>3, <2>4
<1>8. approvals[m] > 0
  <2>1. Cardinality(Granting(m)) > 0
    BY <1>0, <1>6, GrantingCounts, FS_EmptySet
  <2> QED
    BY <1>0, <1>2, <2>1, GrantingCounts DEF CodesInv, Paid
<1>9. ChangedByCode'
  BY <1>0, <1>2, <1>3, <1>8 DEF CodesInv, ChangedByCode
<1> QED
  BY <1>4, <1>5, <1>7, <1>9 DEF CodesInv, Paid

\* Sends, questions, refusals, the confirmation of a signup, a death.
LEMMA OtherStep ==
  ASSUME CodesInv,
         \/ \E m \in Mailbox : Send(m) \/ Expires(m)
         \/ \E c \in Call :
              \/ \E p \in Purpose, h \in Holder, m \in Mailbox : Ask(c, p, h, m)
              \/ Refuses(c) \/ GrantSignup(c) \/ CallDies(c)
         \/ UNCHANGED codeVars
  PROVE  CodesInv'
<1> USE CodesAssumption
<1>0. CodesTypeOK /\ CallsNameMailboxes
  BY DEF CodesInv
<1>1. CASE (\E m \in Mailbox : Send(m) \/ Expires(m)) \/ UNCHANGED codeVars
  <2>1. /\ CodesTypeOK' /\ CallsNameMailboxes'
        /\ UNCHANGED <<email, approvals, given, call>>
    BY <1>0, <1>1 DEF Send, Expires, codeVars, CodesTypeOK, CallsNameMailboxes
  <2> QED
    BY <2>1, NobodyPasses DEF CodesInv
<1>2. ASSUME NEW c \in Call, NEW p \in Purpose, NEW h \in Holder, NEW m \in Mailbox,
             Ask(c, p, h, m)
      PROVE  CodesInv'
  <2>1. CodesTypeOK'
    BY <1>0, <1>2 DEF Ask, CodesTypeOK
  <2>2. CallsNameMailboxes'
    BY <1>0, <1>2 DEF Ask, CodesTypeOK, CallsNameMailboxes
  <2>3. /\ \A d \in Call : call'[d].pc = "granting" => call'[d] = call[d]
        /\ UNCHANGED <<email, approvals, given>>
    BY <1>0, <1>2 DEF Ask, CodesTypeOK
  <2> QED
    BY <2>1, <2>2, <2>3, NobodyPasses DEF CodesInv
<1>3. ASSUME NEW c \in Call, Refuses(c) PROVE CodesInv'
  <2>1. /\ \A d \in Call \ {c} : call'[d] = call[d]
        /\ \/ call' = [call EXCEPT ![c] = NoCall]
           \/ /\ call[c].purpose = "signup"
              /\ call' = [call EXCEPT ![c].pc = "granting"]
        /\ call[c].pc = "asked"
        /\ UNCHANGED <<email, validated, pending, approvals, given>>
    BY <1>0, <1>3 DEF Refuses, CodesTypeOK
  <2>2. CodesTypeOK'
    BY <1>0, <2>1 DEF CodesTypeOK, NoCall, Purpose
  <2>3. CallsNameMailboxes'
    BY <1>0, <2>1 DEF CodesTypeOK, CallsNameMailboxes, NoCall
  <2>4. \A d \in Call : call'[d].pc = "granting" /\ call'[d].purpose # "signup"
          => call'[d] = call[d]
    BY <1>0, <2>1 DEF CodesTypeOK, NoCall
  <2> QED
    BY <2>1, <2>2, <2>3, <2>4, NobodyPasses DEF CodesInv
<1>4. ASSUME NEW c \in Call, GrantSignup(c) \/ CallDies(c) PROVE CodesInv'
  <2>1. /\ \A d \in Call \ {c} : call'[d] = call[d]
        /\ call' = [call EXCEPT ![c] = NoCall] /\ call'[c] = NoCall
        /\ validated' \in [Holder -> BOOLEAN]
        /\ UNCHANGED <<email, pending, approvals, given>>
    BY <1>0, <1>4 DEF GrantSignup, Grants, CallDies, CodesTypeOK
  <2>2. CodesTypeOK'
    BY <1>0, <2>1 DEF CodesTypeOK, NoCall, Purpose
  <2>3. CallsNameMailboxes'
    BY <1>0, <2>1 DEF CallsNameMailboxes, NoCall
  <2>4. \A d \in Call : call'[d].pc = "granting" => call'[d] = call[d]
    BY <2>1 DEF NoCall
  <2> QED
    BY <2>1, <2>2, <2>3, <2>4, NobodyPasses DEF CodesInv
<1> QED
  BY <1>1, <1>2, <1>3, <1>4

-----------------------------------------------------------------------------
\* No code buys two things, whoever shares it, and a changed email was proved:
\* for any users, mailboxes and confirmations at once.
THEOREM NoCodeBuysTwice == CodesSpec => []CodesBuyOnce
<1>1. CodesInv /\ [CodesNext]_codeVars => CodesInv'
  <2> SUFFICES ASSUME CodesInv, [CodesNext]_codeVars PROVE CodesInv'
    OBVIOUS
  <2>1. CASE \E h \in Holder : HandleUserCreate(h) \/ SendForSignup(h) \/ SendForReset(h)
    <3>1. \E m \in Mailbox : Send(m)
      BY <2>1 DEF HandleUserCreate, SendForSignup, SendForReset, CodesInv, CodesTypeOK
    <3> QED
      BY <3>1, OtherStep
  <2>2. CASE \E m \in Mailbox : SendForChange(m) \/ Expires(m)
    BY <2>2, OtherStep DEF SendForChange
  <2>3. CASE \E c \in Call : Approves(c) \/ GrantToken(c) \/ GrantChange(c)
    BY <2>3, ApprovedStep, GivenStep
  <2>4. CASE \/ \E c \in Call :
                  \/ \E p \in Purpose, h \in Holder, m \in Mailbox : Ask(c, p, h, m)
                  \/ Refuses(c) \/ GrantSignup(c) \/ CallDies(c)
             \/ UNCHANGED codeVars
    BY <2>4, OtherStep
  <2> QED
    BY <2>1, <2>2, <2>3, <2>4 DEF CodesNext
<1>2. CodesInv => CodesBuyOnce
  BY DEF CodesInv, CodesBuyOnce, Paid, ChangedByCode
<1> QED
  BY <1>1, <1>2, CodesStart, PTL DEF CodesSpec

=============================================================================
