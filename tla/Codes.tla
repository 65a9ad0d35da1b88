-------------------------------- MODULE Codes --------------------------------
(***************************************************************************)
(* The codes that prove a mailbox: for a signup, a forgotten PIN, a        *)
(* forgotten password and a change of email.  Twilio keeps one             *)
(* verification of an address, whatever the purpose it was sent for, and   *)
(* approves it once.  What an approved code gives is given after Twilio's  *)
(* answer: a token to reset the PIN or the password, the new email, the    *)
(* emailValidated of a signup.                                             *)
(***************************************************************************)
EXTENDS Naturals, FiniteSets

CONSTANTS
  Holder,       \* users whose row exists
  Mailbox,
  Call,         \* concurrent confirmations
  FirstEmail,   \* the email of each row when it was inserted
  NoHolder,
  NoMailbox,
  MaxApproved,  \* bound on the codes approved of a mailbox
  JwtNamesUser  \* whether the guard tells confirmEmailChangeOtp who the user is

ASSUME CodesAssumption ==
  /\ FirstEmail \in [Holder -> Mailbox]
  /\ NoHolder \notin Holder /\ NoMailbox \notin Mailbox
  /\ MaxApproved \in Nat /\ JwtNamesUser \in BOOLEAN
  /\ IsFiniteSet(Call)

VARIABLES
  email,      \* email of each row
  validated,  \* emailValidated of each row
  pending,    \* mailboxes with a code that is neither approved nor expired
  approvals,  \* codes of each mailbox that were approved
  call,       \* progress of each confirmation
  given       \* tokens and changes of email given for each mailbox

codeVars == <<email, validated, pending, approvals, call, given>>

Reset   == {"pincode", "password"}
Purpose == Reset \cup {"signup", "change"}

NoCall == [pc |-> "free", purpose |-> "signup", holder |-> NoHolder, mailbox |-> NoMailbox]

CodesTypeOK ==
  /\ email \in [Holder -> Mailbox] /\ validated \in [Holder -> BOOLEAN]
  /\ pending \subseteq Mailbox
  /\ approvals \in [Mailbox -> 0 .. MaxApproved] /\ given \in [Mailbox -> Nat]
  /\ call \in [Call -> [pc : {"free", "asked", "granting"}, purpose : Purpose,
                        holder : Holder \cup {NoHolder},
                        mailbox : Mailbox \cup {NoMailbox}]]

CodesInit ==
  /\ email = FirstEmail /\ validated = [h \in Holder |-> FALSE]
  /\ pending = {} /\ approvals = [m \in Mailbox |-> 0]
  /\ call = [c \in Call |-> NoCall]
  /\ given = [m \in Mailbox |-> 0]

-----------------------------------------------------------------------------
(* Sending.  One that fails is answered with an error, or logged by the    *)
(* consumer, and nothing has changed.                                      *)

Send(m) ==
  /\ pending' = pending \cup {m}
  /\ UNCHANGED <<email, validated, approvals, call, given>>

\* handleUserCreate, as often as its message is handled.
HandleUserCreate(h) == Send(email[h])

SendForSignup(h) == ~ validated[h] /\ Send(email[h])

\* For a forgotten PIN, and for a forgotten password by anyone who names h.
SendForReset(h) == Send(email[h])

\* requestEmailChange: to any address.
SendForChange(m) == Send(m)

Expires(m) ==
  /\ m \in pending
  /\ pending' = pending \ {m}
  /\ UNCHANGED <<email, validated, approvals, call, given>>

-----------------------------------------------------------------------------
(* Confirming.                                                             *)

\* The email is read from the row, or taken from the request, and Twilio asked.
Ask(c, purpose, h, m) ==
  /\ call[c].pc = "free"
  /\ purpose # "change" => m = email[h]
  /\ call' = [call EXCEPT ![c] = [pc |-> "asked", purpose |-> purpose,
                                  holder |-> h, mailbox |-> m]]
  /\ UNCHANGED <<email, validated, pending, approvals, given>>

\* The code of the mailbox, whatever it was sent for.
Approves(c) ==
  LET m == call[c].mailbox IN
  /\ call[c].pc = "asked" /\ m \in pending /\ approvals[m] < MaxApproved
  /\ pending' = pending \ {m}
  /\ approvals' = [approvals EXCEPT ![m] = @ + 1]
  /\ call' = [call EXCEPT ![c].pc = "granting"]
  /\ UNCHANGED <<email, validated, given>>

\* Mutant: the answer is looked at by the change of email alone.
RefusesChange(c) ==
  /\ call[c].pc = "asked"
  /\ call' = [call EXCEPT ![c] = IF @.purpose = "change" THEN NoCall
                                 ELSE [@ EXCEPT !.pc = "granting"]]
  /\ UNCHANGED <<email, validated, pending, approvals, given>>

\* Another code, or Twilio fails: the confirmation of a signup does not look.
Refuses(c) ==
  /\ call[c].pc = "asked"
  /\ call' = [call EXCEPT ![c] = IF @.purpose # "signup" THEN NoCall
                                 ELSE [@ EXCEPT !.pc = "granting"]]
  /\ UNCHANGED <<email, validated, pending, approvals, given>>

Grants(c, purposes) ==
  /\ call[c].pc = "granting" /\ call[c].purpose \in purposes
  /\ call' = [call EXCEPT ![c] = NoCall]
  /\ UNCHANGED <<pending, approvals>>

\* emailValidated.
GrantSignup(c) ==
  /\ Grants(c, {"signup"})
  /\ validated' = [validated EXCEPT ![call[c].holder] = TRUE]
  /\ UNCHANGED <<email, given>>

\* generateResetPincodeToken, generateResetPasswordToken.
GrantToken(c) ==
  /\ Grants(c, Reset)
  /\ given' = [given EXCEPT ![call[c].mailbox] = @ + 1]
  /\ UNCHANGED <<email, validated>>

\* No row is looked for that has the address.  Without an id the update has no
\* criteria and throws.
GrantChange(c) ==
  /\ JwtNamesUser /\ Grants(c, {"change"})
  /\ email' = [email EXCEPT ![call[c].holder] = call[c].mailbox]
  /\ given' = [given EXCEPT ![call[c].mailbox] = @ + 1]
  /\ UNCHANGED validated

\* The process dies, or the database fails: the code is spent.
CallDies(c) ==
  /\ call[c].pc # "free"
  /\ call' = [call EXCEPT ![c] = NoCall]
  /\ UNCHANGED <<email, validated, pending, approvals, given>>

-----------------------------------------------------------------------------
CodesNext ==
  \/ \E h \in Holder : HandleUserCreate(h) \/ SendForSignup(h) \/ SendForReset(h)
  \/ \E m \in Mailbox : SendForChange(m) \/ Expires(m)
  \/ \E c \in Call :
       \/ \E p \in Purpose, h \in Holder, m \in Mailbox : Ask(c, p, h, m)
       \/ Approves(c) \/ Refuses(c)
       \/ GrantSignup(c) \/ GrantToken(c) \/ GrantChange(c) \/ CallDies(c)

CodesSpec == CodesInit /\ [][CodesNext]_codeVars

-----------------------------------------------------------------------------
(***************************************************************************)
(* Each code gives one thing: of a mailbox no more tokens and changes were *)
(* given, or are about to be, than codes of it were approved, however many *)
(* confirmations of however many purposes and users share the one code     *)
(* that Twilio has of it.  And whoever has another email than at first has *)
(* one of which a code was approved.                                       *)
(***************************************************************************)
Granting(m) ==
  {c \in Call : call[c].pc = "granting" /\ call[c].purpose # "signup"
                /\ call[c].mailbox = m}

CodesBuyOnce ==
  /\ CodesTypeOK
  /\ \A m \in Mailbox : given[m] + Cardinality(Granting(m)) <= approvals[m]
  /\ \A h \in Holder : email[h] # FirstEmail[h] => approvals[email[h]] > 0
=============================================================================
