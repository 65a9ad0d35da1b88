------------------------------ MODULE Onboarding ------------------------------
(***************************************************************************)
(* From a signup to a completed account: createAccount, the confirmation   *)
(* of the email and of the phone number by codes that Twilio sends and     *)
(* checks, the reviews of Sumsub that complete or reject an account, and   *)
(* the consumer that registers a completed user at Bridgecard.             *)
(*                                                                         *)
(* The row of a user is updated by all of them.  An UPDATE names its       *)
(* columns, so two of them never undo each other's, but what a request     *)
(* read before its await may be stale when it writes.                      *)
(***************************************************************************)
EXTENDS Naturals, Sequences, FiniteSets

CONSTANTS
  User,          \* one signup each, and the row it makes
  Applicant,     \* users that go on after their signup
  Email,
  Phone,
  Proc,          \* concurrent phone requests
  Exec,          \* concurrent deliveries of reviews
  Null,          \* no email, no phone number, no user
  MaxReview,     \* bound on the reviews of a user
  MaxRegistered  \* bound on the cardholders of a user

ASSUME OnboardingAssumption ==
  /\ Applicant \subseteq User
  /\ Null \notin User \cup Email \cup Phone
  /\ MaxReview \in Nat /\ MaxRegistered \in Nat

VARIABLES
  signup,      \* progress of each createAccount
  account,     \* rows of the table user
  profile,     \* users with a row in person_profile
  token,       \* users with a create-account token
  request,     \* progress of each phone request
  exec,        \* progress of each delivery of a GREEN review
  review,      \* what Sumsub decided of each user, in order
  notice,      \* what became of the event of each review
  effect,      \* reviews that changed the account
  completed,   \* user.complete events committed
  registered,  \* cardholders at Bridgecard
  approved,    \* numbers Twilio approved a code for
  rushed,      \* emails that two signups checked at once
  overlap,     \* users of whom a send and a confirmation overlapped
  disorder     \* users of whom reviews were delivered late or at once

accounts == <<signup, account, token, rushed>>
phones   == <<request, approved, overlap>>
reviews  == <<exec, review, notice, effect, profile, completed, disorder>>
vars     == <<accounts, phones, reviews, registered>>

Account ==
  [status : {"REGISTERED", "COMPLETED"}, email : Email,
   emailValidated : BOOLEAN, phone : Phone \cup {Null}, phoneValidated : BOOLEAN,
   kyc : {"NOT_STARTED", "VALIDATED", "REJECTED"}]

None == [status |-> "none", email |-> Null, emailValidated |-> FALSE,
         phone |-> Null, phoneValidated |-> FALSE, kyc |-> "NOT_STARTED"]

New(e) == [None EXCEPT !.status = "REGISTERED", !.email = e]

Idle     == [pc |-> "idle", email |-> Null]
Free     == [pc |-> "free", user |-> Null, phone |-> Null]
FreeExec == [pc |-> "free", user |-> Null, index |-> 0]

TypeOK ==
  /\ signup \in [User -> [pc : {"idle", "checked", "saved", "done"}, email : Email \cup {Null}]]
  /\ account \in [User -> {None} \cup Account]
  /\ profile \subseteq User /\ token \subseteq User
  /\ request \in [Proc -> [pc : {"free", "sending", "confirming"},
                           user : User \cup {Null}, phone : Phone \cup {Null}]]
  /\ exec \in [Exec -> [pc : {"free", "fetched", "saved"},
                        user : User \cup {Null}, index : 0..MaxReview]]
  /\ review \in [User -> Seq({"GREEN", "RED"})]
  /\ notice \in [User -> [1..MaxReview -> {"open", "failed", "closed"}]]
  /\ effect \in [User -> SUBSET (1..MaxReview)]
  /\ completed \in [User -> Nat] /\ registered \in [User -> 0..MaxRegistered]
  /\ approved \subseteq User \X Phone
  /\ rushed \subseteq Email /\ overlap \subseteq User /\ disorder \subseteq User

Init ==
  /\ signup = [u \in User |-> Idle] /\ account = [u \in User |-> None]
  /\ profile = {} /\ token = {}
  /\ request = [p \in Proc |-> Free] /\ exec = [x \in Exec |-> FreeExec]
  /\ review = [u \in User |-> <<>>]
  /\ notice = [u \in User |-> [i \in 1..MaxReview |-> "open"]]
  /\ effect = [u \in User |-> {}]
  /\ completed = [u \in User |-> 0] /\ registered = [u \in User |-> 0]
  /\ approved = {} /\ rushed = {} /\ overlap = {} /\ disorder = {}

-----------------------------------------------------------------------------
(* The row of a user.                                                      *)

Exists(u) == account[u].status # "none"

\* The transaction of completeAccount holds the row until it ends.
Locked(u) == \E x \in Exec : exec[x].pc = "saved" /\ exec[x].user = u

Update(u, row) == ~ Locked(u) /\ account' = [account EXCEPT ![u] = row]

-----------------------------------------------------------------------------
(* createAccount.                                                          *)

Taken(e) == \E u \in User : account[u].email = e

Checking(e) == \E u \in User : signup[u] = [pc |-> "checked", email |-> e]

\* Mutant: the email is not looked for.
SignupUnchecked(u, e) ==
  /\ signup[u].pc = "idle"
  /\ signup' = [signup EXCEPT ![u] = [pc |-> "checked", email |-> e]]
  /\ rushed' = IF Checking(e) THEN rushed \cup {e} ELSE rushed
  /\ UNCHANGED <<account, token, phones, reviews, registered>>

\* userExistsByEmailValidator; no constraint of the table repeats it.
SignupCheck(u, e) ==
  /\ signup[u].pc = "idle" /\ ~ Taken(e)
  /\ signup' = [signup EXCEPT ![u] = [pc |-> "checked", email |-> e]]
  /\ rushed' = IF Checking(e) THEN rushed \cup {e} ELSE rushed
  /\ UNCHANGED <<account, token, phones, reviews, registered>>

\* The row and its user.create event, in one transaction.
SignupSave(u) ==
  /\ signup[u].pc = "checked"
  /\ signup' = [signup EXCEPT ![u].pc = "saved"]
  /\ account' = [account EXCEPT ![u] = New(signup[u].email)]
  /\ UNCHANGED <<token, rushed, phones, reviews, registered>>

\* Rolled back.
SignupFails(u) ==
  /\ signup[u].pc = "checked"
  /\ signup' = [signup EXCEPT ![u] = Idle]
  /\ UNCHANGED <<account, token, rushed, phones, reviews, registered>>

SignupToken(u) ==
  /\ signup[u].pc = "saved"
  /\ signup' = [signup EXCEPT ![u].pc = "done"]
  /\ token' = token \cup {u}
  /\ UNCHANGED <<account, rushed, phones, reviews, registered>>

-----------------------------------------------------------------------------
(* Email and phone codes, with the create-account token.                   *)

MayVerify(u) == u \in Applicant \cap token

\* Twilio's answer is not looked at: any code confirms.
ConfirmEmail(u) ==
  /\ MayVerify(u)
  /\ Update(u, [account[u] EXCEPT !.emailValidated = TRUE])
  /\ UNCHANGED <<signup, token, rushed, phones, reviews, registered>>

Begin(p, pc, u, n) ==
  /\ request[p].pc = "free"
  /\ request' = [request EXCEPT ![p] = [pc |-> pc, user |-> u, phone |-> n]]

Other(pc) == IF pc = "sending" THEN "confirming" ELSE "sending"

Overlapping(u, pc) ==
  overlap' = IF \E q \in Proc : request[q].pc = Other(pc) /\ request[q].user = u
             THEN overlap \cup {u} ELSE overlap

\* Mutant: a number is sent a code though another is validated.
SendPhoneUnchecked(p, u, n) ==
  /\ MayVerify(u) /\ account[u].emailValidated
  /\ Begin(p, "sending", u, n) /\ Overlapping(u, "sending")
  /\ UNCHANGED <<accounts, approved, reviews, registered>>

\* The checks of sendPhoneVerificationCode, before Twilio answers.
SendPhone(p, u, n) ==
  /\ MayVerify(u)
  /\ account[u].emailValidated /\ ~ account[u].phoneValidated
  /\ Begin(p, "sending", u, n) /\ Overlapping(u, "sending")
  /\ UNCHANGED <<accounts, approved, reviews, registered>>

SavePhone(p) ==
  /\ request[p].pc = "sending"
  /\ LET u == request[p].user IN Update(u, [account[u] EXCEPT !.phone = request[p].phone])
  /\ request' = [request EXCEPT ![p] = Free]
  /\ UNCHANGED <<signup, token, rushed, approved, overlap, reviews, registered>>

\* The number is read, then Twilio is asked about it.
ConfirmPhone(p, u) ==
  /\ MayVerify(u) /\ account[u].phone # Null
  /\ Begin(p, "confirming", u, account[u].phone) /\ Overlapping(u, "confirming")
  /\ UNCHANGED <<accounts, approved, reviews, registered>>

ValidatePhone(p) ==
  /\ request[p].pc = "confirming"
  /\ LET u == request[p].user
     IN  /\ approved' = approved \cup {<<u, request[p].phone>>}
         /\ Update(u, [account[u] EXCEPT !.phoneValidated = TRUE])
  /\ request' = [request EXCEPT ![p] = Free]
  /\ UNCHANGED <<signup, token, rushed, overlap, reviews, registered>>

\* Twilio fails or does not approve, or the process dies.
PhoneFails(p) ==
  /\ request[p].pc # "free"
  /\ request' = [request EXCEPT ![p] = Free]
  /\ UNCHANGED <<accounts, approved, overlap, reviews, registered>>

-----------------------------------------------------------------------------
(* Reviews.                                                                *)

Review(u, verdict) ==
  /\ MayVerify(u) /\ Len(review[u]) < MaxReview
  /\ review' = [review EXCEPT ![u] = Append(@, verdict)]
  /\ UNCHANGED <<accounts, phones, exec, notice, effect, profile, completed,
                 disorder, registered>>

Close(u, i, to) == notice' = [notice EXCEPT ![u][i] = to]

\* Sumsub stops repeating an event that failed.
GiveUp(u, i) ==
  /\ notice[u][i] = "failed"
  /\ Close(u, i, "closed")
  /\ UNCHANGED <<accounts, phones, exec, review, effect, profile, completed,
                 disorder, registered>>

Deliverable(u, i, verdict) ==
  /\ i \in 1..Len(review[u]) /\ review[u][i] = verdict
  /\ notice[u][i] # "closed"

\* An earlier event is not closed, or one of the user is being handled.
Delivered(u, i) ==
  disorder' = IF \/ \E j \in 1..(i - 1) : notice[u][j] # "closed"
                 \/ \E x \in Exec : exec[x].user = u
              THEN disorder \cup {u} ELSE disorder

\* The update of a RED review, and its answer, which may be lost.
Reject(u, i, answer) ==
  /\ Deliverable(u, i, "RED") /\ Delivered(u, i)
  /\ Update(u, [account[u] EXCEPT !.kyc = "REJECTED"])
  /\ effect' = [effect EXCEPT ![u] = @ \cup {i}]
  /\ Close(u, i, answer)
  /\ UNCHANGED <<signup, token, rushed, phones, exec, review, profile, completed,
                 registered>>

\* completeAccount has the applicant's data.
FetchApplicant(x, u, i) ==
  /\ exec[x].pc = "free"
  /\ Deliverable(u, i, "GREEN") /\ Delivered(u, i)
  /\ exec' = [exec EXCEPT ![x] = [pc |-> "fetched", user |-> u, index |-> i]]
  /\ UNCHANGED <<accounts, phones, review, notice, effect, profile, completed,
                 registered>>

\* Mutant: the table lets a user have two profiles.
InsertProfileAgain(x) ==
  /\ exec[x].pc = "fetched" /\ ~ Locked(exec[x].user)
  /\ exec' = [exec EXCEPT ![x].pc = "saved"]
  /\ UNCHANGED <<accounts, phones, review, notice, effect, profile, completed,
                 disorder, registered>>

\* The transaction up to its COMMIT; a user has one profile.
InsertProfile(x) ==
  /\ exec[x].pc = "fetched" /\ ~ Locked(exec[x].user)
  /\ exec[x].user \notin profile
  /\ exec' = [exec EXCEPT ![x].pc = "saved"]
  /\ UNCHANGED <<accounts, phones, review, notice, effect, profile, completed,
                 disorder, registered>>

\* Mutant: the profile and the event are not part of the transaction.
CompleteBare(x, answer) ==
  LET u == exec[x].user
  IN  /\ exec[x].pc = "saved"
      /\ account' = [account EXCEPT ![u].status = "COMPLETED", ![u].kyc = "VALIDATED"]
      /\ effect' = [effect EXCEPT ![u] = @ \cup {exec[x].index}]
      /\ exec' = [exec EXCEPT ![x] = FreeExec]
      /\ Close(u, exec[x].index, answer)
      /\ UNCHANGED <<signup, token, rushed, phones, review, profile, completed,
                     disorder, registered>>

\* Mutant: the verdict is left as it was.
CompleteStatus(x, answer) ==
  LET u == exec[x].user
  IN  /\ exec[x].pc = "saved"
      /\ account' = [account EXCEPT ![u].status = "COMPLETED"]
      /\ profile' = profile \cup {u}
      /\ completed' = [completed EXCEPT ![u] = @ + 1]
      /\ effect' = [effect EXCEPT ![u] = @ \cup {exec[x].index}]
      /\ exec' = [exec EXCEPT ![x] = FreeExec]
      /\ Close(u, exec[x].index, answer)
      /\ UNCHANGED <<signup, token, rushed, phones, review, disorder, registered>>

Complete(x, answer) ==
  LET u == exec[x].user
  IN  /\ exec[x].pc = "saved"
      /\ account' = [account EXCEPT ![u].status = "COMPLETED", ![u].kyc = "VALIDATED"]
      /\ profile' = profile \cup {u}
      /\ completed' = [completed EXCEPT ![u] = @ + 1]
      /\ effect' = [effect EXCEPT ![u] = @ \cup {exec[x].index}]
      /\ exec' = [exec EXCEPT ![x] = FreeExec]
      /\ Close(u, exec[x].index, answer)
      /\ UNCHANGED <<signup, token, rushed, phones, review, disorder, registered>>

\* A second profile, a lost connection, the death of the process: rolled back.
CompleteFails(x) ==
  /\ exec[x].pc # "free"
  /\ exec' = [exec EXCEPT ![x] = FreeExec]
  /\ Close(exec[x].user, exec[x].index, "failed")
  /\ UNCHANGED <<accounts, phones, review, effect, profile, completed, disorder,
                 registered>>

\* handleUserComplete: the update that follows names the user by uuid where the
\* table has ids, and throws.  A message may be handled again.
RegisterCardholder(u) ==
  /\ completed[u] > 0 /\ u \in profile /\ registered[u] < MaxRegistered
  /\ registered' = [registered EXCEPT ![u] = @ + 1]
  /\ UNCHANGED <<accounts, phones, reviews>>

-----------------------------------------------------------------------------
SignupStep(u) == SignupSave(u) \/ SignupFails(u) \/ SignupToken(u)
PhoneStep(p)  == SavePhone(p) \/ ValidatePhone(p) \/ PhoneFails(p)

Next ==
  \/ \E u \in User : SignupStep(u) \/ \E e \in Email : SignupCheck(u, e)
  \/ \E u \in User : ConfirmEmail(u) \/ RegisterCardholder(u)
  \/ \E p \in Proc, u \in User :
       ConfirmPhone(p, u) \/ \E n \in Phone : SendPhone(p, u, n)
  \/ \E p \in Proc : PhoneStep(p)
  \/ \E u \in User, verdict \in {"GREEN", "RED"} : Review(u, verdict)
  \/ \E u \in User, i \in 1..MaxReview :
       \/ GiveUp(u, i)
       \/ \E answer \in {"closed", "failed"} : Reject(u, i, answer)
       \/ \E x \in Exec : FetchApplicant(x, u, i)
  \/ \E x \in Exec :
       \/ InsertProfile(x) \/ CompleteFails(x)
       \/ \E answer \in {"closed", "failed"} : Complete(x, answer)

Spec == Init /\ [][Next]_vars

-----------------------------------------------------------------------------
(* Properties.                                                             *)

\* Two users share an email only if their signups both passed the validator
\* before either had inserted its row.
EmailsAreUnique ==
  \A u, v \in User :
    u # v /\ Exists(u) /\ account[u].email = account[v].email
      => account[u].email \in rushed

\* A validated phone number is one that Twilio approved for this user, unless
\* the user sent a code to a number while confirming another.
PhoneIsApproved ==
  \A u \in User :
    account[u].phoneValidated /\ u \notin overlap
      => <<u, account[u].phone>> \in approved

\* completeAccount is done at most once per user and as a whole, however often
\* and in whatever order its reviews are delivered: the status, the profile and
\* the one user.complete event go together, a GREEN review was behind them, and
\* nobody else has a cardholder at Bridgecard.
CompletionIsWhole ==
  \A u \in User :
    /\ u \in profile <=> account[u].status = "COMPLETED"
    /\ completed[u] = IF u \in profile THEN 1 ELSE 0
    /\ u \in profile => \E i \in effect[u] : review[u][i] = "GREEN"
    /\ registered[u] > 0 => u \in profile

\* With the types that the other properties rest on.
OnboardingSafe == TypeOK /\ CompletionIsWhole

Verdict(review_) == IF review_ = "GREEN" THEN "VALIDATED" ELSE "REJECTED"

\* kyc_status is what the last review that had an effect decided, unless reviews
\* of the user were delivered late or at once.  A second GREEN has no effect: it
\* fails on the profile of the first.
KycIsLastReview ==
  \A u \in User \ disorder :
    account[u].kyc =
      IF effect[u] = {} THEN "NOT_STARTED"
      ELSE LET last == CHOOSE i \in effect[u] : \A j \in effect[u] : j <= i
           IN Verdict(review[u][last])
=============================================================================
