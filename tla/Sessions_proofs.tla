--------------------------- MODULE Sessions_proofs ---------------------------
(***************************************************************************)
(* Type correctness of Sessions and the inductive invariant behind its     *)
(* properties of sessions and reset tokens.                                *)
(***************************************************************************)
EXTENDS Sessions, TLAPS

-----------------------------------------------------------------------------
(* The inductive invariant.                                                *)

\* A token belongs to the session it started or was refreshed from.
Families ==
  \A t \in Token : Issued(t) =>
    LET f == row[t].family
    IN  /\ Issued(f) /\ row[f].family = f
        /\ row[t].type # "refresh" => f = t
        /\ row[t].type = "refresh" => row[f].type # "create"

\* What was saved, ended or applied was drawn before; resets have no device.
Drawn ==
  /\ live \cup ended \subseteq {t \in Token : Issued(t)}
  /\ \A t \in applied : row[t].type \in Reset
  /\ \A t \in Token : row[t].type \in Reset => row[t].device = Null /\ row[t].family = t

\* A reset holds a token of its kind; a refresh holds any but an account's.
Fits(p) ==
  LET t == request[p].token
  IN  /\ request[p].pc \in {"found", "renew"} =>
           t \in Token /\ Issued(t) /\ row[t].type # "create"
      /\ request[p].pc = "replace" =>
           t \in Token /\ Issued(t) /\ row[t].type \notin Reset
      /\ request[p].pc = "checked" => t \in Token /\ row[t].type \in Reset
      /\ request[p].pc = "used" => t \in Token /\ row[t].type = "password"
      /\ request[p].pc = "set" => t \in applied /\ row[t].type = "pincode"

RequestsFit == \A p \in Proc : Fits(p)

RowHolds(t, f) == t \in live /\ row[t].type = "refresh" /\ row[t].family = f

RequestHolds(p, f) ==
  request[p].pc = "renew" /\ row[request[p].token].family = f

NoneHolds(f) == /\ \A t \in Token : ~ RowHolds(t, f)
                /\ \A p \in Proc : ~ RequestHolds(p, f)

OneHolds ==
  \A f \in Token \ raced :
    /\ \A s, t \in Token : RowHolds(s, f) /\ RowHolds(t, f) => s = t
    /\ \A p, q \in Proc : RequestHolds(p, f) /\ RequestHolds(q, f) => p = q
    /\ \A t \in Token, p \in Proc : ~ (RowHolds(t, f) /\ RequestHolds(p, f))
    /\ f \in ended => NoneHolds(f)

\* A session was opened: some token of its family was saved.
Opened(f) == \E s \in Token : row[s].type = "refresh" /\ row[s].family = f

SomeHolds ==
  \A f \in Token \ (ended \cup lost) : Opened(f) =>
    (\E t \in Token : RowHolds(t, f)) \/ (\E p \in Proc : RequestHolds(p, f))

At(p, pc, t) == request[p].pc = pc /\ request[p].token = t

\* A token is refreshed, or was.
Renewed(t) == Opened(t) \/ \E p \in Proc : At(p, "renew", t)

\* A reset token that is still there was neither logged out nor refreshed.
Untouched ==
  \A t \in live \ raced : row[t].type \in Reset => t \notin ended /\ ~ Renewed(t)

\* A reset token that is gone was used, logged out, refreshed or lost.
Gone ==
  \A t \in Token \ (live \cup applied \cup ended \cup lost) :
    row[t].type \in Reset =>
      Renewed(t) \/ (row[t].type = "password" /\ \E p \in Proc : At(p, "used", t))

\* A password token is in the table, in the hands of one request, applied or
\* refreshed.
PasswordOnce ==
  \A t \in Token \ raced : row[t].type = "password" =>
    /\ t \notin again
    /\ t \in live \/ Renewed(t) => t \notin applied
    /\ \A p \in Proc : At(p, "used", t) => t \notin live \cup applied /\ ~ Renewed(t)
    /\ \A p, q \in Proc : At(p, "used", t) /\ At(q, "used", t) => p = q

\* An applied PIN token has a request each to delete it and to find it gone.
PincodeOnce ==
  \A t \in Token \ raced : row[t].type = "pincode" =>
    /\ t \in applied /\ (t \in live \/ Renewed(t)) => \E p \in Proc : At(p, "set", t)
    /\ t \in again => \E p \in Proc : At(p, "set", t)
    /\ t \in again \cap live =>
         \E p, q \in Proc : p # q /\ At(p, "set", t) /\ At(q, "set", t)

SessionsInv ==
  /\ TypeOK /\ Families /\ Drawn /\ RequestsFit
  /\ OneHolds /\ SomeHolds /\ Untouched
  /\ Gone /\ PasswordOnce /\ PincodeOnce

-----------------------------------------------------------------------------
(* Type correctness.                                                       *)

LEMMA BeginType ==
  ASSUME TypeOK, NEW p \in Proc, NEW pc, NEW u \in User,
         NEW d \in Device \cup {Null}, NEW t \in Token \cup {Null},
         pc \in {"found", "replace", "login", "checked"}, Begin(p, pc, u, d, t)
  PROVE  request' \in [Proc -> {Free} \cup Handling]
BY DEF TypeOK, Begin, Handling

LEMMA ContinueType ==
  ASSUME TypeOK, NEW p \in Proc, NEW from, NEW to,
         from # "free", to \in {"renew", "login", "used", "set"}, Continue(p, from, to)
  PROVE  /\ request' \in [Proc -> {Free} \cup Handling]
         /\ request[p] \in Handling
<1>1. request[p] \in Handling
  BY DEF TypeOK, Continue, Free
<1>2. [request[p] EXCEPT !.pc = to] \in Handling
  BY <1>1 DEF Handling
<1> QED
  BY <1>1, <1>2 DEF TypeOK, Continue

LEMMA EndType ==
  ASSUME TypeOK, NEW p \in Proc, NEW from, from # "free", End(p, from)
  PROVE  /\ request' \in [Proc -> {Free} \cup Handling]
         /\ request[p] \in Handling
BY DEF TypeOK, End, Free

LEMMA GenerateType ==
  ASSUME TypeOK, NEW t \in Token, NEW type \in {"create", "refresh"} \cup Reset,
         NEW u \in User, NEW d \in Device \cup {Null}, NEW f \in Token,
         Generate(t, type, u, d, f)
  PROVE  /\ row' \in [Token -> {Blank} \cup Row]
         /\ live' \subseteq Token
BY DEF TypeOK, Generate, Row

\* A row that was saved has its columns.
LEMMA RowType ==
  ASSUME TypeOK, NEW t \in Token, Issued(t)
  PROVE  row[t] \in Row
BY DEF TypeOK, Issued

LEMMA DeleteType ==
  ASSUME TypeOK, NEW t \in Token, Issued(t), DeleteByToken(t)
  PROVE  /\ live' = live \ {t} /\ live' \subseteq Token
         /\ raced' \subseteq Token /\ raced \subseteq raced'
         /\ row[t].family \in Token
BY RowType DEF TypeOK, DeleteByToken, Missed, Row

Base == TypeOK /\ Families /\ Drawn /\ RequestsFit

\* A new row disturbs no other: it was not drawn before, so nothing named it.
LEMMA GenerateBase ==
  ASSUME Base, NEW t \in Token, NEW type \in {"create", "refresh"} \cup Reset,
         NEW u \in User, NEW d \in Device \cup {Null}, NEW f \in Token,
         Generate(t, type, u, d, f),
         \/ f = t
         \/ type = "refresh" /\ Issued(f) /\ row[f].family = f /\ row[f].type # "create",
         type \in Reset => d = Null /\ f = t,
         UNCHANGED <<ended, applied>>
  PROVE  /\ Families' /\ Drawn'
         /\ \A s \in Token : Issued(s) => s # t /\ row'[s] = row[s]
         /\ row'[t] = [type |-> type, user |-> u, device |-> d, family |-> f]
         /\ Issued(t)'
<1>1. row' = [row EXCEPT ![t] = [type |-> type, user |-> u, device |-> d, family |-> f]]
  BY DEF Generate
<1>2. row'[t] = [type |-> type, user |-> u, device |-> d, family |-> f]
  BY <1>1 DEF Base, TypeOK
<1>3. \A s \in Token : s # t => row'[s] = row[s]
  BY <1>1 DEF Base, TypeOK
<1>4. Issued(t)' /\ ~ Issued(t)
  BY <1>2 DEF Issued, Generate, Blank, Reset
<1>5. \A s \in Token : Issued(s) => s # t /\ row'[s] = row[s] /\ Issued(s)'
  BY <1>3, <1>4 DEF Issued
<1>6. Families'
  <2> SUFFICES ASSUME NEW s \in Token, Issued(s)'
               PROVE  /\ row'[row'[s].family] # Blank
                      /\ row'[row'[s].family].family = row'[s].family
                      /\ row'[s].type # "refresh" => row'[s].family = s
                      /\ row'[s].type = "refresh" => row'[row'[s].family].type # "create"
    BY DEF Families, Issued
  <2>1. CASE s = t
    <3>1. row'[t] # Blank
      BY <1>4 DEF Issued
    <3>2. Issued(f) => row'[f] = row[f] /\ row[f] # Blank
      BY <1>5 DEF Issued
    <3> QED
      BY <2>1, <3>1, <3>2, <1>2
  <2>2. CASE s # t
    <3>1. Issued(s) /\ row'[s] = row[s]
      BY <2>2, <1>3 DEF Issued
    <3>2. row[s].family \in Token
      BY <3>1, RowType DEF Base, Row
    <3> QED
      BY <3>1, <3>2, <1>5 DEF Base, Families, Issued
  <2> QED
    BY <2>1, <2>2
<1>7. Drawn'
  <2>1. live' \cup ended' \subseteq {s \in Token : Issued(s)'}
    BY <1>4, <1>5 DEF Base, TypeOK, Drawn, Generate
  <2>2. \A s \in applied' : row'[s].type \in Reset
    <3>1. \A s \in applied : Issued(s)
      BY DEF Base, Drawn, Issued, Blank, Reset
    <3> QED
      BY <3>1, <1>5 DEF Base, TypeOK, Drawn
  <2>3. \A s \in Token :
          row'[s].type \in Reset => row'[s].device = Null /\ row'[s].family = s
    BY <1>2, <1>3 DEF Base, Drawn
  <2> QED
    BY <2>1, <2>2, <2>3 DEF Drawn
<1> QED
  BY <1>2, <1>4, <1>5, <1>6, <1>7

\* Requests fit their tokens as long as their tokens' rows stay.
LEMMA RowsKept ==
  ASSUME Base, \A s \in Token : Issued(s) => row'[s] = row[s],
         applied \subseteq applied', NEW p \in Proc, request'[p] = request[p]
  PROVE  Fits(p)'
<1> DEFINE t == request[p].token
<1>1. t \in Token /\ row[t].type \in {"refresh", "password", "pincode"} => Issued(t)
  BY DEF Issued, Blank
<1>2. t \in Token /\ Issued(t) => row'[t] = row[t]
  OBVIOUS
<1>3. applied \subseteq Token
  BY DEF Base, TypeOK
<1>4. CASE request[p].pc \in {"found", "renew", "replace"}
  BY <1>2, <1>4 DEF Base, RequestsFit, Fits, Issued
<1>5. CASE request[p].pc = "set"
  BY <1>1, <1>2, <1>3, <1>5 DEF Base, RequestsFit, Fits
<1>6. CASE request[p].pc \in {"checked", "used"}
  BY <1>1, <1>2, <1>6 DEF Base, RequestsFit, Fits, Reset
<1>7. CASE request[p].pc \notin {"replace", "set", "found", "renew", "checked", "used"}
  BY <1>7 DEF Fits
<1> QED
  BY <1>4, <1>5, <1>6, <1>7

-----------------------------------------------------------------------------
(* Every step keeps types, families and what requests hold.                *)

\* A step that begins, continues or ends p leaves the other requests alone.
LEMMA OthersFit ==
  ASSUME Base, \A s \in Token : Issued(s) => row'[s] = row[s],
         applied \subseteq applied', NEW p \in Proc, NEW r,
         request' = [request EXCEPT ![p] = r], Fits(p)'
  PROVE  RequestsFit'
<1>1. \A q \in Proc : q # p => request'[q] = request[q]
  BY DEF Base, TypeOK
<1> QED
  BY <1>1, RowsKept DEF RequestsFit

LEMMA FreeFits ==
  ASSUME NEW p \in Proc, request'[p] = Free
  PROVE  Fits(p)'
BY DEF Fits, Free

LEMMA SameRows ==
  ASSUME Base, UNCHANGED <<row, applied>>, live' \subseteq live,
         ended' \subseteq {t \in Token : Issued(t)}
  PROVE  Families' /\ Drawn'
<1>1. Families'
  BY DEF Base, Families, Issued
<1>2. Drawn'
  BY DEF Base, Drawn, Issued
<1> QED
  BY <1>1, <1>2

LEMMA CreateAccountBase ==
  ASSUME Base, NEW t \in Token, NEW u \in User, NEW d \in Device, CreateAccount(t, u, d)
  PROVE  Base'
<1>1. /\ Generate(t, "create", u, d, t)
      /\ UNCHANGED <<request, ended, raced, lost, applied, again>>
  BY DEF CreateAccount
<1>2. Families' /\ Drawn' /\ \A s \in Token : Issued(s) => row'[s] = row[s]
  BY <1>1, GenerateBase DEF Reset
<1>3. RequestsFit'
  BY <1>1, <1>2, RowsKept DEF RequestsFit
<1>4. TypeOK'
  BY <1>1, GenerateType DEF Base, TypeOK
<1> QED
  BY <1>2, <1>3, <1>4 DEF Base

LEMMA ConfirmCodeBase ==
  ASSUME Base, NEW t \in Token, NEW u \in User, NEW type \in Reset, ConfirmCode(t, u, type)
  PROVE  Base'
<1>1. /\ Generate(t, type, u, Null, t)
      /\ UNCHANGED <<request, ended, raced, lost, applied, again>>
  BY DEF ConfirmCode
<1>2. Families' /\ Drawn' /\ \A s \in Token : Issued(s) => row'[s] = row[s]
  BY <1>1, GenerateBase
<1>3. RequestsFit'
  BY <1>1, <1>2, RowsKept DEF RequestsFit
<1>4. TypeOK'
  BY <1>1, GenerateType DEF Base, TypeOK
<1> QED
  BY <1>2, <1>3, <1>4 DEF Base

LEMMA BeginBase ==
  ASSUME Base, NEW p \in Proc, NEW u \in User, NEW d \in Device \cup {Null},
         NEW t \in Token \cup {Null},
         NEW pc \in {"found", "replace", "login", "checked"}, Begin(p, pc, u, d, t),
         pc = "found" => t \in Token /\ Issued(t) /\ row[t].type # "create",
         pc = "replace" => t \in Token /\ Issued(t) /\ row[t].type \notin Reset,
         pc = "checked" => t \in Token /\ row[t].type \in Reset,
         UNCHANGED <<row, live, ended, raced, lost, applied, again>>
  PROVE  Base'
<1>1. TypeOK'
  BY BeginType DEF Base, TypeOK
<1>2. request'[p] = [pc |-> pc, user |-> u, device |-> d, token |-> t]
  BY DEF Begin, Base, TypeOK
<1>3. Fits(p)'
  BY <1>2 DEF Fits, Issued
<1>4. RequestsFit'
  BY <1>3, OthersFit DEF Begin
<1>5. Families' /\ Drawn'
  BY SameRows DEF Base, Drawn
<1> QED
  BY <1>1, <1>4, <1>5 DEF Base

LEMMA RefreshFindBase ==
  ASSUME Base, NEW p \in Proc, NEW t \in Token, NEW d \in Device, RefreshFind(p, t, d)
  PROVE  Base'
<1>1. Issued(t)
  BY DEF RefreshFind, Base, Drawn
<1>2. row[t].user \in User
  BY <1>1, RowType DEF Row, Base
<1> QED
  BY <1>1, <1>2, BeginBase DEF RefreshFind

LEMMA LoginFindBase ==
  ASSUME SessionsAssumption, Base, NEW p \in Proc, NEW u \in User, NEW d \in Device,
         LoginFind(p, u, d)
  PROVE  Base'
<1>1. CASE Begin(p, "login", u, d, Null)
  BY <1>1, BeginBase DEF LoginFind
<1>2. ASSUME NEW t \in OnDevice(u, d), Begin(p, "replace", u, d, t)
      PROVE  Base'
  <2>1. t \in Token /\ Issued(t) /\ row[t].type \notin Reset
    BY <1>2, SessionsAssumption DEF OnDevice, Base, Drawn
  <2> QED
    BY <1>2, <2>1, BeginBase DEF LoginFind
<1> QED
  BY <1>1, <1>2 DEF LoginFind

LEMMA ResetCheckBase ==
  ASSUME Base, NEW p \in Proc, NEW t \in Token, ResetCheck(p, t)
  PROVE  Base'
<1>1. row[t].user \in User
  BY RowType DEF ResetCheck, Issued, Blank, Row, Base, Reset
<1> QED
  BY <1>1, BeginBase DEF ResetCheck

\* The token a request works on was drawn.
LEMMA TokenDrawn ==
  ASSUME Base, NEW p \in Proc,
         request[p].pc \in {"found", "renew", "replace", "checked", "used", "set"}
  PROVE  /\ request[p].token \in Token
         /\ Issued(request[p].token)
         /\ Issued(row[request[p].token].family)
         /\ row[request[p].token].family \in Token
<1> DEFINE t == request[p].token
<1>1. t \in Token /\ Issued(t)
  BY DEF Base, TypeOK, RequestsFit, Fits, Issued, Blank, Reset
<1> QED
  BY <1>1, RowType DEF Base, Families, Row

LEMMA DeleteBase ==
  ASSUME Base, NEW t \in Token, Issued(t), DeleteByToken(t),
         request' \in [Proc -> {Free} \cup Handling], RequestsFit',
         ended' \subseteq ended \cup {row[t].family},
         UNCHANGED <<row, lost, applied, again>>
  PROVE  Base'
<1>1. Issued(row[t].family) /\ row[t].family \in Token
  BY RowType DEF Base, Families, Row
<1>2. Families' /\ Drawn'
  <2>1. ended' \subseteq {s \in Token : Issued(s)}
    BY <1>1 DEF Base, Drawn
  <2> QED
    BY <2>1, DeleteType, SameRows DEF Base
<1>3. TypeOK'
  BY <1>1, DeleteType DEF Base, TypeOK
<1> QED
  BY <1>2, <1>3 DEF Base

LEMMA LogoutBase ==
  ASSUME Base, NEW t \in Token, Logout(t)
  PROVE  Base'
<1>1. Issued(t)
  BY DEF Logout
<1>2. RequestsFit'
  BY RowsKept DEF Logout, RequestsFit
<1> QED
  BY <1>1, <1>2, DeleteBase DEF Logout, Base, TypeOK

\* A step of p that deletes its token and goes on to another part of its request.
LEMMA ContinueDeleteBase ==
  ASSUME Base, NEW p \in Proc, NEW from, NEW to,
         from \in {"found", "replace", "checked"},
         to \in {"renew", "login", "used"},
         Continue(p, from, to), DeleteByToken(request[p].token),
         to = "renew" => from = "found",
         to = "used" => row[request[p].token].type = "password",
         ended' \subseteq ended \cup {row[request[p].token].family},
         UNCHANGED <<row, lost, applied, again>>
  PROVE  Base'
<1>1. request[p].token \in Token /\ Issued(request[p].token)
  BY TokenDrawn DEF Continue
<1>2. /\ request[p] \in Handling
      /\ request' \in [Proc -> {Free} \cup Handling]
  BY ContinueType DEF Base
<1>3. request'[p].pc = to /\ request'[p].token = request[p].token
  BY <1>2 DEF Base, TypeOK, Continue, Handling
<1>4. Fits(p)'
  BY <1>1, <1>3 DEF Fits, Base, RequestsFit, Continue, Issued
<1>5. RequestsFit'
  BY <1>4, OthersFit DEF Continue
<1> QED
  BY <1>1, <1>2, <1>5, DeleteBase

LEMMA RefreshDeleteBase ==
  ASSUME Base, NEW p \in Proc, RefreshDelete(p)
  PROVE  Base'
BY ContinueDeleteBase DEF RefreshDelete, Base, TypeOK

LEMMA LoginReplaceBase ==
  ASSUME Base, NEW p \in Proc, LoginReplace(p)
  PROVE  Base'
BY ContinueDeleteBase DEF LoginReplace, Base, TypeOK

LEMMA PasswordDeleteBase ==
  ASSUME Base, NEW p \in Proc, PasswordDelete(p)
  PROVE  Base'
BY ContinueDeleteBase DEF PasswordDelete, Base, TypeOK

LEMMA EndFit ==
  ASSUME Base, NEW p \in Proc, NEW from, End(p, from),
         \A s \in Token : Issued(s) => row'[s] = row[s], applied \subseteq applied'
  PROVE  RequestsFit'
<1>1. request'[p] = Free
  BY DEF End, Base, TypeOK
<1> QED
  BY <1>1, FreeFits, OthersFit DEF End

LEMMA PincodeDeleteBase ==
  ASSUME Base, NEW p \in Proc, PincodeDelete(p)
  PROVE  Base'
<1>1. request[p].token \in Token /\ Issued(request[p].token)
  BY TokenDrawn DEF PincodeDelete, End
<1>2. RequestsFit'
  BY EndFit DEF PincodeDelete
<1>3. request' \in [Proc -> {Free} \cup Handling]
  BY EndType DEF PincodeDelete, Base
<1> QED
  BY <1>1, <1>2, <1>3, DeleteBase DEF PincodeDelete

\* A step of p that saves a refresh token ends its request.
LEMMA IssueBase ==
  ASSUME Base, NEW p \in Proc, NEW from \in {"renew", "login"}, NEW t \in Token,
         NEW f \in Token, End(p, from),
         Generate(t, "refresh", request[p].user, request[p].device, f),
         f = t \/ (Issued(f) /\ row[f].family = f /\ row[f].type # "create"),
         UNCHANGED <<ended, raced, lost, applied, again>>
  PROVE  Base'
<1>1. /\ request' \in [Proc -> {Free} \cup Handling]
      /\ request[p] \in Handling
  BY EndType DEF Base
<1>2. request[p].user \in User /\ request[p].device \in Device \cup {Null}
  BY <1>1 DEF Handling
<1>3. Families' /\ Drawn' /\ \A s \in Token : Issued(s) => row'[s] = row[s]
  BY <1>2, GenerateBase DEF Reset
<1>4. RequestsFit'
  BY <1>3, EndFit
<1>5. TypeOK'
  BY <1>1, <1>2, GenerateType DEF Base, TypeOK
<1> QED
  BY <1>3, <1>4, <1>5 DEF Base

\* What a refresh holds is a token of a session, or a reset token.
LEMMA FamilyHeld ==
  ASSUME Base, NEW p \in Proc, request[p].pc \in {"found", "renew"}
  PROVE  LET t == request[p].token
             f == row[t].family
         IN  /\ f \in Token /\ Issued(f) /\ row[f].family = f /\ row[f].type # "create"
             /\ row[t].type = "refresh" \/ (row[t].type \in Reset /\ f = t)
<1> DEFINE t == request[p].token
<1>1. t \in Token /\ Issued(t) /\ row[t].type # "create"
  BY DEF Base, RequestsFit, Fits
<1>2. row[t].type \in {"create", "refresh"} \cup Reset
  BY <1>1, RowType DEF Base, Row
<1> QED
  BY <1>1, <1>2, RowType DEF Base, Row, Families

LEMMA RefreshRenewBase ==
  ASSUME Base, NEW p \in Proc, NEW t \in Token, RefreshRenew(p, t)
  PROVE  Base'
<1>1. request[p].pc = "renew"
  BY DEF RefreshRenew, End
<1> QED
  BY <1>1, FamilyHeld, IssueBase DEF RefreshRenew

LEMMA LoginIssueBase ==
  ASSUME Base, NEW p \in Proc, NEW t \in Token, LoginIssue(p, t)
  PROVE  Base'
BY IssueBase DEF LoginIssue

LEMMA ApplyType ==
  ASSUME Base, NEW t \in Token, row[t].type \in Reset, Apply(t)
  PROVE  /\ applied' \subseteq Token /\ again' \subseteq applied'
         /\ applied \subseteq applied'
         /\ \A s \in applied' : row[s].type \in Reset
BY DEF Base, TypeOK, Drawn, Apply

LEMMA PasswordSetBase ==
  ASSUME Base, NEW p \in Proc, PasswordSet(p)
  PROVE  Base'
<1>1. request[p].token \in Token /\ row[request[p].token].type \in Reset
  BY DEF PasswordSet, End, Base, RequestsFit, Fits, Reset
<1>2. /\ applied' \subseteq Token /\ again' \subseteq applied'
      /\ applied \subseteq applied' /\ \A s \in applied' : row[s].type \in Reset
  BY <1>1, ApplyType DEF PasswordSet
<1>3. RequestsFit'
  BY <1>2, EndFit DEF PasswordSet
<1>4. Families' /\ Drawn'
  BY <1>2 DEF Base, Families, Drawn, Issued, PasswordSet
<1>5. TypeOK'
  BY <1>2, EndType DEF Base, TypeOK, PasswordSet
<1> QED
  BY <1>3, <1>4, <1>5 DEF Base

LEMMA PincodeSetBase ==
  ASSUME Base, NEW p \in Proc, PincodeSet(p)
  PROVE  Base'
<1> DEFINE t == request[p].token
<1>1. t \in Token /\ row[t].type \in Reset
  BY DEF PincodeSet, Continue, Base, RequestsFit, Fits
<1>2. /\ applied' \subseteq Token /\ again' \subseteq applied'
      /\ applied \subseteq applied' /\ \A s \in applied' : row[s].type \in Reset
  BY <1>1, ApplyType DEF PincodeSet
<1>3. /\ request[p] \in Handling
      /\ request' \in [Proc -> {Free} \cup Handling]
  BY ContinueType DEF PincodeSet, Base
<1>4. request'[p].pc = "set" /\ request'[p].token = t
  BY <1>3 DEF Base, TypeOK, PincodeSet, Continue, Handling
<1>5. Fits(p)'
  BY <1>1, <1>4 DEF Fits, PincodeSet, Apply
<1>6. RequestsFit'
  BY <1>2, <1>5, OthersFit DEF PincodeSet, Continue
<1>7. Families' /\ Drawn'
  BY <1>2 DEF Base, Families, Drawn, Issued, PincodeSet
<1>8. TypeOK'
  BY <1>2, <1>3 DEF Base, TypeOK, PincodeSet
<1> QED
  BY <1>6, <1>7, <1>8 DEF Base

LEMMA ApiCrashBase ==
  ASSUME Base, ApiCrash
  PROVE  Base'
<1>1. TokensAt("set") \subseteq Token /\ TokensAt("used") \subseteq Token
  BY TokenDrawn DEF TokensAt
<1>2. {row[t].family : t \in TokensAt("renew")} \subseteq Token
  BY TokenDrawn DEF TokensAt
<1>3. TypeOK'
  BY <1>1, <1>2 DEF Base, TypeOK, ApiCrash
<1>4. RequestsFit'
  BY FreeFits DEF ApiCrash, RequestsFit
<1>5. Families' /\ Drawn'
  BY SameRows DEF ApiCrash, Base, Drawn
<1> QED
  BY <1>3, <1>4, <1>5 DEF Base

-----------------------------------------------------------------------------
(* What carries a session on.                                              *)

HoldersInv == OneHolds /\ SomeHolds

LEMMA SessionOpened ==
  ASSUME TypeOK
  PROVE  /\ Session \subseteq Token
         /\ \A f : f \in Session <=> Opened(f)
<1>1. \A s \in Token : row[s].type = "refresh" => row[s].family \in Token
  BY RowType DEF Issued, Blank, Row
<1> QED
  BY <1>1 DEF Session, Opened

\* Nothing belongs to a token that was not drawn.
LEMMA UndrawnFamily ==
  ASSUME Base, NEW f \in Token, ~ Issued(f)
  PROVE  ~ Renewed(f) /\ NoneHolds(f) /\ f \notin ended
<1>1. \A s \in Token : row[s].type = "refresh" => row[s].family # f
  BY DEF Base, Families, Issued, Blank
<1>2. \A p \in Proc : ~ RequestHolds(p, f) /\ ~ At(p, "renew", f)
  BY TokenDrawn DEF RequestHolds, At
<1> QED
  BY <1>1, <1>2 DEF Base, Drawn, Renewed, Opened, NoneHolds, RowHolds

\* A reset token that was not refreshed carries no session on.
LEMMA HoldersRenewed ==
  ASSUME Base, NEW f \in Token, ~ Renewed(f)
  PROVE  NoneHolds(f)
<1>1. \A s \in Token : ~ RowHolds(s, f)
  BY DEF RowHolds, Renewed, Opened
<1>2. ASSUME NEW p \in Proc, RequestHolds(p, f)
      PROVE  FALSE
  <2>1. CASE row[request[p].token].type = "refresh"
    BY <1>2, <2>1, TokenDrawn DEF RequestHolds, Renewed, Opened
  <2>2. CASE request[p].token = f
    BY <1>2, <2>2 DEF RequestHolds, Renewed, At
  <2> QED
    BY <1>2, <2>1, <2>2, FamilyHeld DEF RequestHolds
<1> QED
  BY <1>1, <1>2 DEF NoneHolds

\* Only what was refreshed carries a session of its own on.
LEMMA NotASession ==
  ASSUME Base, NEW f \in Token, row[f].type = "create"
  PROVE  ~ Renewed(f)
<1>1. ~ Opened(f)
  BY DEF Base, Families, Opened, Issued, Blank
<1>2. \A p \in Proc : ~ At(p, "renew", f)
  BY DEF Base, RequestsFit, Fits, At
<1> QED
  BY <1>1, <1>2 DEF Renewed

\* A step that moves no refresh row and no refresh under way.
LEMMA HoldersSame ==
  ASSUME HoldersInv, \A f \in Token : Opened(f)' => Opened(f),
         \A t, f \in Token : RowHolds(t, f)' <=> RowHolds(t, f),
         \A p \in Proc, f \in Token : RequestHolds(p, f)' <=> RequestHolds(p, f),
         raced \subseteq raced', lost \subseteq lost', ended' = ended
  PROVE  HoldersInv'
<1>1. OneHolds'
  BY DEF HoldersInv, OneHolds, NoneHolds
<1>2. SomeHolds'
  BY DEF HoldersInv, SomeHolds
<1> QED
  BY <1>1, <1>2 DEF HoldersInv

LEMMA BeginHolders ==
  ASSUME Base, HoldersInv, NEW p \in Proc, NEW pc, NEW u, NEW d, NEW t,
         pc # "renew", Begin(p, pc, u, d, t),
         UNCHANGED <<row, live, ended, raced, lost>>
  PROVE  HoldersInv'
<1>1. \A s, f \in Token : RowHolds(s, f)' <=> RowHolds(s, f)
  BY DEF RowHolds
<1>2. \A q \in Proc, f \in Token : RequestHolds(q, f)' <=> RequestHolds(q, f)
  BY DEF RequestHolds, Begin, Base, TypeOK
<1>3. \A f \in Token : Opened(f)' => Opened(f)
  BY DEF Opened
<1> QED
  BY <1>1, <1>2, <1>3, HoldersSame

\* A request that neither was nor is about to save a refresh token.
LEMMA StepHolders ==
  ASSUME Base, HoldersInv, NEW p \in Proc, NEW from, from \notin {"free", "renew"},
         End(p, from) \/ \E to \in {"login", "used", "set"} : Continue(p, from, to),
         \A t, f \in Token : RowHolds(t, f)' <=> RowHolds(t, f),
         row' = row, raced \subseteq raced', lost' = lost, ended' = ended
  PROVE  HoldersInv'
<1>1. request[p].pc # "renew" /\ request'[p].pc # "renew"
  <2>1. ASSUME NEW to \in {"login", "used", "set"}, Continue(p, from, to)
        PROVE  request[p].pc # "renew" /\ request'[p].pc # "renew"
    <3>1. request[p] \in Handling
      BY <2>1, ContinueType DEF Base
    <3> QED
      BY <2>1, <3>1 DEF Continue, Handling, Base, TypeOK
  <2>2. CASE End(p, from)
    BY <2>2 DEF End, Free, Base, TypeOK
  <2> QED
    BY <2>1, <2>2
<1>2. \A q \in Proc : q # p => request'[q] = request[q]
  BY DEF Continue, End, Base, TypeOK
<1>3. \A q \in Proc, f \in Token : RequestHolds(q, f)' <=> RequestHolds(q, f)
  BY <1>1, <1>2 DEF RequestHolds
<1>4. \A f \in Token : Opened(f)' => Opened(f)
  BY DEF Opened
<1> QED
  BY <1>3, <1>4, HoldersSame

LEMMA NewRowHolders ==
  ASSUME Base, HoldersInv, NEW t \in Token, NEW type \in {"create"} \cup Reset,
         NEW u \in User, NEW d \in Device \cup {Null},
         Generate(t, type, u, d, t), type \in Reset => d = Null,
         UNCHANGED <<request, ended, raced, lost, applied>>
  PROVE  HoldersInv'
<1>1. /\ \A s \in Token : Issued(s) => s # t /\ row'[s] = row[s]
      /\ row'[t] = [type |-> type, user |-> u, device |-> d, family |-> t]
  BY GenerateBase
<1>2. type # "refresh"
  BY DEF Reset
<1>3. \A s \in Token : s # t => row'[s] = row[s]
  BY DEF Generate, Base, TypeOK
<1>4. \A f \in Token : Opened(f)' => Opened(f)
  BY <1>1, <1>2, <1>3 DEF Opened
<1>5. live' = live \cup {t} /\ live \subseteq {s \in Token : Issued(s)}
  BY DEF Generate, Base, Drawn
<1>6. \A s, f \in Token : RowHolds(s, f)' <=> RowHolds(s, f)
  BY <1>1, <1>2, <1>5 DEF RowHolds
<1>7. \A p \in Proc, f \in Token : RequestHolds(p, f)' <=> RequestHolds(p, f)
  BY <1>1, TokenDrawn DEF RequestHolds
<1> QED
  BY <1>4, <1>6, <1>7, HoldersSame

\* A row of another kind is deleted.
LEMMA OtherRowDeleted ==
  ASSUME Base, NEW t \in Token, row[t].type # "refresh", DeleteByToken(t), row' = row
  PROVE  \A s, f \in Token : RowHolds(s, f)' <=> RowHolds(s, f)
BY DEF DeleteByToken, RowHolds

LEMMA PasswordDeleteHolders ==
  ASSUME Base, HoldersInv, NEW p \in Proc, PasswordDelete(p)
  PROVE  HoldersInv'
<1>1. request[p].token \in Token /\ Issued(request[p].token)
  BY TokenDrawn DEF PasswordDelete, Continue
<1>2. raced \subseteq raced' /\ row[request[p].token].type # "refresh"
  BY <1>1, DeleteType DEF PasswordDelete, Base
<1>3. \A s, f \in Token : RowHolds(s, f)' <=> RowHolds(s, f)
  BY <1>1, <1>2, OtherRowDeleted DEF PasswordDelete
<1> QED
  BY <1>2, <1>3, StepHolders DEF PasswordDelete

LEMMA PincodeDeleteHolders ==
  ASSUME Base, HoldersInv, NEW p \in Proc, PincodeDelete(p)
  PROVE  HoldersInv'
<1>1. /\ request[p].token \in Token /\ Issued(request[p].token)
      /\ row[request[p].token].type = "pincode"
  BY TokenDrawn DEF PincodeDelete, End, Base, RequestsFit, Fits
<1>2. raced \subseteq raced'
  BY <1>1, DeleteType DEF PincodeDelete, Base
<1>3. \A s, f \in Token : RowHolds(s, f)' <=> RowHolds(s, f)
  BY <1>1, OtherRowDeleted DEF PincodeDelete
<1> QED
  BY <1>2, <1>3, StepHolders DEF PincodeDelete

LEMMA PasswordSetHolders ==
  ASSUME Base, HoldersInv, NEW p \in Proc, PasswordSet(p)
  PROVE  HoldersInv'
<1>1. \A s, f \in Token : RowHolds(s, f)' <=> RowHolds(s, f)
  BY DEF PasswordSet, RowHolds
<1> QED
  BY <1>1, StepHolders DEF PasswordSet

LEMMA PincodeSetHolders ==
  ASSUME Base, HoldersInv, NEW p \in Proc, PincodeSet(p)
  PROVE  HoldersInv'
<1>1. \A s, f \in Token : RowHolds(s, f)' <=> RowHolds(s, f)
  BY DEF PincodeSet, RowHolds
<1> QED
  BY <1>1, StepHolders DEF PincodeSet

\* The row, if it is there, gives way to the request.
LEMMA RefreshDeleteHolders ==
  ASSUME Base, HoldersInv, Untouched, NEW p \in Proc, RefreshDelete(p)
  PROVE  HoldersInv'
<1> DEFINE t == request[p].token
           g == row[t].family
<1>1. /\ t \in Token /\ Issued(t) /\ g \in Token
      /\ row[t].type = "refresh" \/ (row[t].type \in Reset /\ g = t)
  BY TokenDrawn, FamilyHeld DEF RefreshDelete, Continue
<1>2. request[p] \in Handling /\ request[p].pc = "found"
  BY ContinueType DEF RefreshDelete, Continue, Base
<1>3. /\ request'[p].pc = "renew" /\ request'[p].token = t
      /\ \A q \in Proc : q # p => request'[q] = request[q]
  BY <1>2 DEF RefreshDelete, Continue, Handling, Base, TypeOK
<1>4. /\ live' = live \ {t} /\ raced \subseteq raced'
      /\ t \notin live => g \in raced'
      /\ UNCHANGED <<row, ended, lost>>
  BY <1>1, DeleteType DEF RefreshDelete, DeleteByToken, Missed, Base
<1>5. \A q \in Proc, f \in Token :
        RequestHolds(q, f)' <=> RequestHolds(q, f) \/ (q = p /\ f = g)
  BY <1>2, <1>3, <1>4 DEF RequestHolds
<1>6. \A s, f \in Token : RowHolds(s, f)' <=> RowHolds(s, f) /\ s # t
  BY <1>4 DEF RowHolds
<1>7. \A f \in Token : Opened(f)' <=> Opened(f)
  BY <1>4 DEF Opened
<1>8. \A f \in Token : RowHolds(t, f) => f = g
  BY DEF RowHolds
<1>9. g \notin raced' => RowHolds(t, g) \/ (NoneHolds(g) /\ g \notin ended)
  <2> SUFFICES ASSUME g \notin raced', row[t].type # "refresh"
               PROVE  NoneHolds(g) /\ g \notin ended
    BY <1>1, <1>4 DEF RowHolds
  <2>1. g = t /\ t \in live \ raced /\ row[t].type \in Reset
    BY <1>1, <1>4
  <2>2. ~ Renewed(t) /\ t \notin ended
    BY <2>1 DEF Untouched
  <2>3. NoneHolds(t)
    BY <1>1, <2>2, HoldersRenewed
  <2> QED
    BY <2>1, <2>2, <2>3
<1>10. OneHolds'
  <2> SUFFICES ASSUME NEW f \in Token, f \notin raced'
               PROVE  /\ \A s, r \in Token : RowHolds(s, f)' /\ RowHolds(r, f)' => s = r
                      /\ \A q, r \in Proc : RequestHolds(q, f)' /\ RequestHolds(r, f)' => q = r
                      /\ \A s \in Token, q \in Proc : ~ (RowHolds(s, f)' /\ RequestHolds(q, f)')
                      /\ f \in ended => /\ \A s \in Token : ~ RowHolds(s, f)'
                                        /\ \A q \in Proc : ~ RequestHolds(q, f)'
    BY <1>4 DEF OneHolds, NoneHolds
  <2>1. f \notin raced
    BY <1>4
  <2>2. CASE f = g
    BY <2>1, <2>2, <1>1, <1>5, <1>6, <1>9 DEF HoldersInv, OneHolds, NoneHolds
  <2>3. CASE f # g
    BY <2>1, <2>3, <1>5, <1>6 DEF HoldersInv, OneHolds, NoneHolds
  <2> QED
    BY <2>2, <2>3
<1>11. SomeHolds'
  BY <1>4, <1>5, <1>6, <1>7, <1>8 DEF HoldersInv, SomeHolds
<1> QED
  BY <1>10, <1>11 DEF HoldersInv

\* The request gives way to the row it saves, the first of its session or not.
LEMMA RefreshRenewHolders ==
  ASSUME Base, HoldersInv, NEW p \in Proc, NEW t \in Token, RefreshRenew(p, t)
  PROVE  HoldersInv'
<1> DEFINE g == row[request[p].token].family
<1>1. /\ request[p].pc = "renew" /\ request'[p] = Free
      /\ \A q \in Proc : q # p => request'[q] = request[q]
      /\ UNCHANGED <<ended, raced, lost, applied>>
  BY DEF RefreshRenew, End, Base, TypeOK
<1>2. /\ g \in Token /\ Issued(g) /\ row[g].family = g /\ row[g].type # "create"
  BY <1>1, FamilyHeld
<1>3. request[p] \in Handling
  BY EndType DEF RefreshRenew, Base
<1>4. request[p].user \in User /\ request[p].device \in Device \cup {Null}
  BY <1>3 DEF Handling
<1>5. Generate(t, "refresh", request[p].user, request[p].device, g)
  BY DEF RefreshRenew
<1>6. /\ \A s \in Token : Issued(s) => s # t /\ row'[s] = row[s]
      /\ row'[t].type = "refresh" /\ row'[t].family = g
  <2>1. /\ \A s \in Token : Issued(s) => s # t /\ row'[s] = row[s]
        /\ row'[t] = [type |-> "refresh", user |-> request[p].user,
                      device |-> request[p].device, family |-> g]
    BY <1>1, <1>2, <1>4, <1>5, GenerateBase DEF Reset
  <2> QED
    BY <2>1
<1>7. \A s \in Token : s # t => row'[s] = row[s]
  BY <1>5 DEF Generate, Base, TypeOK
<1>8. live' = live \cup {t} /\ \A s \in live : s # t
  BY <1>5 DEF Generate, Base, Drawn
<1>9. \A s, f \in Token : RowHolds(s, f)' <=> RowHolds(s, f) \/ (s = t /\ f = g)
  BY <1>6, <1>7, <1>8 DEF RowHolds
<1>10. \A q \in Proc, f \in Token :
        RequestHolds(q, f)' <=> RequestHolds(q, f) /\ q # p
  <2>1. \A q \in Proc : q # p /\ request[q].pc = "renew" =>
          row'[request[q].token] = row[request[q].token]
    BY <1>6, TokenDrawn
  <2> QED
    BY <1>1, <2>1 DEF RequestHolds, Free
<1>11. \A f \in Token : Opened(f)' => Opened(f) \/ f = g
  BY <1>6, <1>7 DEF Opened
<1>12. RequestHolds(p, g) /\ \A f \in Token : RequestHolds(p, f) => f = g
  BY <1>1 DEF RequestHolds
<1>13. OneHolds'
  <2> SUFFICES ASSUME NEW f \in Token, f \notin raced
               PROVE  /\ \A s, r \in Token : RowHolds(s, f)' /\ RowHolds(r, f)' => s = r
                      /\ \A q, r \in Proc : RequestHolds(q, f)' /\ RequestHolds(r, f)' => q = r
                      /\ \A s \in Token, q \in Proc : ~ (RowHolds(s, f)' /\ RequestHolds(q, f)')
                      /\ f \in ended => /\ \A s \in Token : ~ RowHolds(s, f)'
                                        /\ \A q \in Proc : ~ RequestHolds(q, f)'
    BY <1>1 DEF OneHolds, NoneHolds
  <2>1. CASE f = g
    BY <2>1, <1>9, <1>10, <1>12 DEF HoldersInv, OneHolds, NoneHolds
  <2>2. CASE f # g
    BY <2>2, <1>9, <1>10 DEF HoldersInv, OneHolds, NoneHolds
  <2> QED
    BY <2>1, <2>2
<1>14. SomeHolds'
  BY <1>1, <1>2, <1>9, <1>10, <1>11, <1>12 DEF HoldersInv, SomeHolds
<1> QED
  BY <1>13, <1>14 DEF HoldersInv

\* A login's row is the only holder of the session it starts.
LEMMA LoginIssueHolders ==
  ASSUME Base, HoldersInv, NEW p \in Proc, NEW t \in Token, LoginIssue(p, t)
  PROVE  HoldersInv'
<1>1. /\ request[p].pc = "login" /\ request'[p] = Free
      /\ \A q \in Proc : q # p => request'[q] = request[q]
      /\ UNCHANGED <<ended, raced, lost, applied>>
  BY DEF LoginIssue, End, Base, TypeOK
<1>2. request[p] \in Handling
  BY EndType DEF LoginIssue, Base
<1>3. request[p].user \in User /\ request[p].device \in Device \cup {Null}
  BY <1>2 DEF Handling
<1>4. Generate(t, "refresh", request[p].user, request[p].device, t)
  BY DEF LoginIssue
<1>5. /\ \A s \in Token : Issued(s) => s # t /\ row'[s] = row[s]
      /\ row'[t].type = "refresh" /\ row'[t].family = t
  <2>1. /\ \A s \in Token : Issued(s) => s # t /\ row'[s] = row[s]
        /\ row'[t] = [type |-> "refresh", user |-> request[p].user,
                      device |-> request[p].device, family |-> t]
    BY <1>1, <1>3, <1>4, GenerateBase DEF Reset
  <2> QED
    BY <2>1
<1>6. \A s \in Token : s # t => row'[s] = row[s]
  BY <1>4 DEF Generate, Base, TypeOK
<1>7. live' = live \cup {t} /\ \A s \in live : s # t
  BY <1>4 DEF Generate, Base, Drawn
<1>8. \A s, f \in Token : RowHolds(s, f)' <=> RowHolds(s, f) \/ (s = t /\ f = t)
  BY <1>5, <1>6, <1>7 DEF RowHolds
<1>9. \A q \in Proc, f \in Token : RequestHolds(q, f)' <=> RequestHolds(q, f)
  <2>1. \A q \in Proc : q # p /\ request[q].pc = "renew" =>
          row'[request[q].token] = row[request[q].token]
    BY <1>5, TokenDrawn
  <2> QED
    BY <1>1, <2>1 DEF RequestHolds, Free
<1>10. \A f \in Token : Opened(f)' => Opened(f) \/ f = t
  BY <1>5, <1>6 DEF Opened
<1>11. NoneHolds(t) /\ t \notin ended
  BY <1>5, UndrawnFamily
<1>12. OneHolds'
  <2> SUFFICES ASSUME NEW f \in Token, f \notin raced
               PROVE  /\ \A s, r \in Token : RowHolds(s, f)' /\ RowHolds(r, f)' => s = r
                      /\ \A q, r \in Proc : RequestHolds(q, f)' /\ RequestHolds(r, f)' => q = r
                      /\ \A s \in Token, q \in Proc : ~ (RowHolds(s, f)' /\ RequestHolds(q, f)')
                      /\ f \in ended => /\ \A s \in Token : ~ RowHolds(s, f)'
                                        /\ \A q \in Proc : ~ RequestHolds(q, f)'
    BY <1>1 DEF OneHolds, NoneHolds
  <2>1. CASE f = t
    BY <2>1, <1>8, <1>9, <1>11 DEF NoneHolds
  <2>2. CASE f # t
    BY <2>2, <1>8, <1>9 DEF HoldersInv, OneHolds, NoneHolds
  <2> QED
    BY <2>1, <2>2
<1>13. SomeHolds'
  BY <1>1, <1>8, <1>9, <1>10 DEF HoldersInv, SomeHolds
<1> QED
  BY <1>12, <1>13 DEF HoldersInv

\* Whoever ends a session, or a token of another kind, deletes its one row or
\* finds it gone.
LEMMA SessionEnded ==
  ASSUME Base, HoldersInv, Untouched, NEW t \in Token, Issued(t), DeleteByToken(t),
         ended' = ended \cup {row[t].family}, UNCHANGED <<row, lost>>,
         \A q \in Proc, f \in Token : RequestHolds(q, f)' <=> RequestHolds(q, f)
  PROVE  HoldersInv'
<1> DEFINE g == row[t].family
<1>1. /\ live' = live \ {t} /\ raced \subseteq raced' /\ g \in Token
      /\ row[t].type # "refresh" => g = t
  BY DeleteType DEF Base, Families
<1>2. t \notin live => g \in raced'
  BY DEF DeleteByToken, Missed
<1>3. \A s, f \in Token : RowHolds(s, f)' <=> RowHolds(s, f) /\ s # t
  BY <1>1 DEF RowHolds
<1>4. \A f \in Token : Opened(f)' <=> Opened(f)
  BY DEF Opened
<1>5. \A f \in Token : RowHolds(t, f) => f = g
  BY DEF RowHolds
<1>6. g \notin raced' => RowHolds(t, g) \/ NoneHolds(g)
  <2>1. CASE row[t].type = "refresh"
    BY <2>1, <1>2 DEF RowHolds
  <2>2. CASE row[t].type = "create"
    BY <2>2, <1>1, NotASession, HoldersRenewed
  <2>3. CASE row[t].type \in Reset
    <3>1. g = t
      BY <2>3, <1>1 DEF Reset
    <3> QED
      BY <2>3, <3>1, <1>1, <1>2, HoldersRenewed DEF Untouched
  <2> QED
    BY <2>1, <2>2, <2>3, RowType DEF Base, Row
<1>7. OneHolds'
  <2> SUFFICES ASSUME NEW f \in Token, f \notin raced'
               PROVE  /\ \A s, r \in Token : RowHolds(s, f)' /\ RowHolds(r, f)' => s = r
                      /\ \A q, r \in Proc : RequestHolds(q, f)' /\ RequestHolds(r, f)' => q = r
                      /\ \A s \in Token, q \in Proc : ~ (RowHolds(s, f)' /\ RequestHolds(q, f)')
                      /\ f \in ended' => /\ \A s \in Token : ~ RowHolds(s, f)'
                                         /\ \A q \in Proc : ~ RequestHolds(q, f)'
    BY DEF OneHolds, NoneHolds
  <2>1. f \notin raced
    BY <1>1
  <2>2. CASE f = g
    BY <2>1, <2>2, <1>3, <1>6 DEF HoldersInv, OneHolds, NoneHolds
  <2>3. CASE f # g
    BY <2>1, <2>3, <1>3 DEF HoldersInv, OneHolds, NoneHolds
  <2> QED
    BY <2>2, <2>3
<1>8. SomeHolds'
  BY <1>3, <1>4, <1>5 DEF HoldersInv, SomeHolds
<1> QED
  BY <1>7, <1>8 DEF HoldersInv

LEMMA LogoutHolders ==
  ASSUME Base, HoldersInv, Untouched, NEW t \in Token, Logout(t)
  PROVE  HoldersInv'
<1>1. \A q \in Proc, f \in Token : RequestHolds(q, f)' <=> RequestHolds(q, f)
  BY DEF Logout, RequestHolds
<1> QED
  BY <1>1, SessionEnded DEF Logout

LEMMA LoginReplaceHolders ==
  ASSUME Base, HoldersInv, Untouched, NEW p \in Proc, LoginReplace(p)
  PROVE  HoldersInv'
<1>1. request[p].token \in Token /\ Issued(request[p].token)
  BY TokenDrawn DEF LoginReplace, Continue
<1>2. request[p] \in Handling /\ request[p].pc = "replace"
  BY ContinueType DEF LoginReplace, Continue, Base
<1>3. /\ request'[p].pc = "login" /\ row' = row
      /\ \A q \in Proc : q # p => request'[q] = request[q]
  BY <1>2 DEF LoginReplace, Continue, Handling, Base, TypeOK
<1>4. \A q \in Proc, f \in Token : RequestHolds(q, f)' <=> RequestHolds(q, f)
  BY <1>2, <1>3 DEF RequestHolds
<1> QED
  BY <1>1, <1>4, SessionEnded DEF LoginReplace

LEMMA ApiCrashHolders ==
  ASSUME Base, HoldersInv, ApiCrash
  PROVE  HoldersInv'
<1>1. \A t, f \in Token : RowHolds(t, f)' <=> RowHolds(t, f)
  BY DEF RowHolds, ApiCrash
<1>2. \A p \in Proc, f \in Token : ~ RequestHolds(p, f)'
  BY DEF RequestHolds, ApiCrash, Free
<1>3. \A p \in Proc, f \in Token : RequestHolds(p, f) => f \in lost'
  BY DEF RequestHolds, ApiCrash, TokensAt
<1>4. /\ \A f \in Token : Opened(f)' <=> Opened(f)
      /\ raced \subseteq raced' /\ lost \subseteq lost' /\ ended' = ended
  BY DEF Opened, ApiCrash
<1>5. OneHolds'
  BY <1>1, <1>2, <1>4 DEF HoldersInv, OneHolds, NoneHolds
<1>6. SomeHolds'
  BY <1>1, <1>3, <1>4 DEF HoldersInv, SomeHolds
<1> QED
  BY <1>5, <1>6 DEF HoldersInv

-----------------------------------------------------------------------------
(* Reset tokens.                                                           *)

ResetsInv == Untouched /\ Gone /\ PasswordOnce /\ PincodeOnce

\* A step that touches no reset token, unless it draws one.
LEMMA ResetsSame ==
  ASSUME Base, ResetsInv,
         \A t \in Token : row'[t].type \in Reset =>
           \/ /\ row[t].type = row'[t].type
              /\ t \in live' <=> t \in live
              /\ Renewed(t)' <=> Renewed(t)
              /\ t \in ended' => t \in ended \/ Renewed(t)
           \/ /\ ~ Issued(t)
              /\ t \in live' /\ ~ Renewed(t)' /\ t \notin ended',
         \A p \in Proc, t \in Token :
           /\ At(p, "used", t)' <=> At(p, "used", t)
           /\ At(p, "set", t)' <=> At(p, "set", t),
         raced \subseteq raced', ended \subseteq ended', UNCHANGED <<lost, applied, again>>,
         live' \subseteq Token
  PROVE  ResetsInv'
<1>1. \A t \in Token : ~ Issued(t) => t \notin applied /\ t \notin again
  BY DEF Base, TypeOK, Drawn, Issued, Blank, Reset
<1>2. \A t \in Token, p \in Proc : ~ Issued(t) =>
        ~ At(p, "used", t) /\ ~ At(p, "set", t)
  BY TokenDrawn DEF At
<1>3. Untouched'
  BY DEF ResetsInv, Untouched
<1>4. Gone'
  <2> SUFFICES ASSUME NEW t \in Token, row'[t].type \in Reset,
                      t \notin live' \cup applied \cup ended' \cup lost
               PROVE  Renewed(t)' \/ (row'[t].type = "password" /\ \E p \in Proc : At(p, "used", t)')
    BY DEF Gone
  <2> QED
    BY DEF ResetsInv, Gone
<1>5. PasswordOnce'
  <2> SUFFICES ASSUME NEW t \in Token, t \notin raced', row'[t].type = "password"
               PROVE  /\ t \notin again
                      /\ t \in live' \/ Renewed(t)' => t \notin applied
                      /\ \A p \in Proc : At(p, "used", t) =>
                           t \notin live' \cup applied /\ ~ Renewed(t)'
                      /\ \A p, q \in Proc : At(p, "used", t) /\ At(q, "used", t) => p = q
    BY DEF PasswordOnce
  <2>1. CASE Issued(t)
    BY <2>1 DEF ResetsInv, PasswordOnce, Reset
  <2>2. CASE ~ Issued(t)
    BY <2>2, <1>1, <1>2
  <2> QED
    BY <2>1, <2>2
<1>6. PincodeOnce'
  <2> SUFFICES ASSUME NEW t \in Token, t \notin raced', row'[t].type = "pincode"
               PROVE  /\ t \in applied /\ (t \in live' \/ Renewed(t)') =>
                           \E p \in Proc : At(p, "set", t)
                      /\ t \in again => \E p \in Proc : At(p, "set", t)
                      /\ t \in again \cap live' =>
                           \E p, q \in Proc : p # q /\ At(p, "set", t) /\ At(q, "set", t)
    BY DEF PincodeOnce
  <2>1. CASE Issued(t)
    BY <2>1 DEF ResetsInv, PincodeOnce, Reset
  <2>2. CASE ~ Issued(t)
    BY <2>2, <1>1
  <2> QED
    BY <2>1, <2>2
<1> QED
  BY <1>3, <1>4, <1>5, <1>6 DEF ResetsInv

\* Requests that neither are nor come to be in the middle of a reset or refresh.
LEMMA HandsSame ==
  ASSUME Base, NEW p \in Proc, NEW r, request' = [request EXCEPT ![p] = r],
         request[p].pc \notin {"used", "set"}, request'[p].pc \notin {"used", "set"}
  PROVE  /\ \A q \in Proc, t \in Token :
              /\ At(q, "used", t)' <=> At(q, "used", t)
              /\ At(q, "set", t)' <=> At(q, "set", t)
         /\ request[p].pc # "renew" /\ request'[p].pc # "renew" =>
              \A q \in Proc, t \in Token : At(q, "renew", t)' <=> At(q, "renew", t)
<1>1. \A q \in Proc : q # p => request'[q] = request[q]
  BY DEF Base, TypeOK
<1> QED
  BY <1>1 DEF At

\* A row that is not of a refresh opens no session.
LEMMA OpenedSame ==
  ASSUME row' = row
  PROVE  \A t : Opened(t)' <=> Opened(t)
BY DEF Opened

LEMMA BeginResets ==
  ASSUME Base, ResetsInv, NEW p \in Proc, NEW pc, NEW u, NEW d, NEW t,
         pc \notin {"used", "set", "renew"}, Begin(p, pc, u, d, t),
         UNCHANGED <<row, live, ended, raced, lost, applied, again>>
  PROVE  ResetsInv'
<1>1. /\ request[p].pc \notin {"used", "set", "renew"}
      /\ request'[p].pc \notin {"used", "set", "renew"}
  BY DEF Begin, Base, TypeOK
<1>2. \A q \in Proc, s \in Token :
        /\ At(q, "used", s)' <=> At(q, "used", s)
        /\ At(q, "set", s)' <=> At(q, "set", s)
        /\ At(q, "renew", s)' <=> At(q, "renew", s)
  BY <1>1, HandsSame DEF Begin
<1>3. \A s \in Token : Renewed(s)' <=> Renewed(s)
  BY <1>2, OpenedSame DEF Renewed
<1> QED
  BY <1>2, <1>3, ResetsSame DEF Base, TypeOK

\* A draw touches no other row and names no reset token by another's family.
LEMMA DrawResets ==
  ASSUME Base, ResetsInv, NEW t \in Token, NEW type, NEW u, NEW d, NEW f,
         Generate(t, type, u, d, f),
         \A s \in Token : Issued(s) /\ row[s].type \in Reset => (Renewed(s)' <=> Renewed(s)),
         type \in Reset => ~ Renewed(t)',
         \A q \in Proc, s \in Token :
           /\ At(q, "used", s)' <=> At(q, "used", s)
           /\ At(q, "set", s)' <=> At(q, "set", s),
         UNCHANGED <<ended, raced, lost, applied, again>>
  PROVE  ResetsInv'
<1>1. /\ ~ Issued(t) /\ live' = live \cup {t} /\ live' \subseteq Token
      /\ t \notin ended
  BY UndrawnFamily DEF Generate, Base, TypeOK
<1>2. \A s \in Token : s # t => row'[s] = row[s]
  BY DEF Generate, Base, TypeOK
<1>3. row'[t].type = type
  BY DEF Generate, Base, TypeOK
<1>4. \A s \in Token : row[s].type \in Reset => Issued(s)
  BY DEF Reset, Issued, Blank
<1> QED
  BY <1>1, <1>2, <1>3, <1>4, ResetsSame

\* A new row that is not of a refresh.
LEMMA NewRowResets ==
  ASSUME Base, ResetsInv, NEW t \in Token, NEW type \in {"create"} \cup Reset,
         NEW u, NEW d, Generate(t, type, u, d, t),
         UNCHANGED <<request, ended, raced, lost, applied, again>>
  PROVE  ResetsInv'
<1>1. /\ \A s \in Token : s # t => row'[s] = row[s]
      /\ row'[t].type # "refresh" /\ ~ Issued(t)
  BY DEF Generate, Base, TypeOK, Reset
<1>2. \A s \in Token : Opened(s)' <=> Opened(s)
  BY <1>1 DEF Opened, Issued, Blank
<1>3. \A s \in Token : Renewed(s)' <=> Renewed(s)
  BY <1>2 DEF Renewed, At
<1>4. ~ Renewed(t)'
  BY <1>1, <1>3, UndrawnFamily
<1>5. \A q \in Proc, s \in Token :
        /\ At(q, "used", s)' <=> At(q, "used", s)
        /\ At(q, "set", s)' <=> At(q, "set", s)
  BY DEF At
<1> QED
  BY <1>3, <1>4, <1>5, DrawResets

LEMMA LoginIssueResets ==
  ASSUME Base, ResetsInv, NEW p \in Proc, NEW t \in Token, LoginIssue(p, t)
  PROVE  ResetsInv'
<1>1. /\ request[p].pc \notin {"used", "set", "renew"}
      /\ request'[p].pc \notin {"used", "set", "renew"}
  BY DEF LoginIssue, End, Free, Base, TypeOK
<1>2. \A q \in Proc, s \in Token :
        /\ At(q, "used", s)' <=> At(q, "used", s)
        /\ At(q, "set", s)' <=> At(q, "set", s)
        /\ At(q, "renew", s)' <=> At(q, "renew", s)
  BY <1>1, HandsSame DEF LoginIssue, End
<1>3. /\ \A s \in Token : s # t => row'[s] = row[s]
      /\ row'[t].family = t /\ ~ Issued(t)
  BY DEF LoginIssue, Generate, Base, TypeOK
<1>4. \A s \in Token : Issued(s) => (Renewed(s)' <=> Renewed(s))
  BY <1>2, <1>3 DEF Renewed, Opened, Issued, Blank
<1> QED
  BY <1>2, <1>4, DrawResets DEF LoginIssue, Reset

\* A reset token that is refreshed becomes a session.
LEMMA RefreshRenewResets ==
  ASSUME Base, ResetsInv, NEW p \in Proc, NEW t \in Token, RefreshRenew(p, t)
  PROVE  ResetsInv'
<1> DEFINE o == request[p].token
           g == row[o].family
<1>1. /\ request[p].pc = "renew" /\ request'[p] = Free
      /\ \A q \in Proc : q # p => request'[q] = request[q]
  BY DEF RefreshRenew, End, Base, TypeOK
<1>2. \A q \in Proc, s \in Token :
        /\ At(q, "used", s)' <=> At(q, "used", s)
        /\ At(q, "set", s)' <=> At(q, "set", s)
        /\ At(q, "renew", s)' <=> At(q, "renew", s) /\ q # p
  BY <1>1 DEF At, Free
<1>3. /\ \A s \in Token : s # t => row'[s] = row[s]
      /\ row'[t].family = g /\ row'[t].type = "refresh" /\ ~ Issued(t)
  BY DEF RefreshRenew, Generate, Base, TypeOK
<1>4. /\ o \in Token /\ g \in Token
      /\ row[o].type = "refresh" \/ (row[o].type \in Reset /\ g = o)
  BY <1>1, FamilyHeld, TokenDrawn
<1>5. \A s \in Token : Opened(s)' <=> Opened(s) \/ s = g
  BY <1>3 DEF Opened, Issued, Blank
<1>6. At(p, "renew", o) /\ \A s : At(p, "renew", s) => s = o
  BY <1>1 DEF At
<1>7. ASSUME NEW s \in Token, row[s].type \in Reset
      PROVE  Renewed(s)' <=> Renewed(s)
  <2>1. Renewed(s)' => Renewed(s)
    <3>1. CASE s = g /\ row[o].type = "refresh"
      BY <3>1, <1>4 DEF Renewed, Opened
    <3>2. CASE s = g /\ g = o
      BY <3>2, <1>6 DEF Renewed
    <3>3. CASE s # g
      BY <3>3, <1>2, <1>5 DEF Renewed
    <3> QED
      BY <3>1, <3>2, <3>3, <1>4
  <2>2. Renewed(s) => Renewed(s)'
    <3>1. s = o => s = g
      BY <1>4, <1>7 DEF Reset
    <3> QED
      BY <3>1, <1>2, <1>5, <1>6 DEF Renewed
  <2> QED
    BY <2>1, <2>2
<1> QED
  BY <1>2, <1>7, DrawResets DEF RefreshRenew, Reset

\* A row that is no reset token is deleted.
LEMMA OtherDeleteResets ==
  ASSUME Base, ResetsInv, NEW t \in Token, Issued(t), row[t].type \notin Reset,
         DeleteByToken(t), \A s \in Token : row[s].type \in Reset => (Renewed(s)' <=> Renewed(s)),
         \A q \in Proc, s \in Token :
           /\ At(q, "used", s)' <=> At(q, "used", s)
           /\ At(q, "set", s)' <=> At(q, "set", s),
         ended \subseteq ended', ended' \subseteq ended \cup {row[t].family},
         UNCHANGED <<row, lost, applied, again>>
  PROVE  ResetsInv'
<1>1. live' = live \ {t} /\ raced \subseteq raced' /\ live' \subseteq Token
  BY DeleteType DEF Base
<1>2. row[t].family = t \/ Opened(row[t].family)
  BY DEF Base, Families, Opened
<1>3. \A s \in Token : row[s].type \in Reset /\ s \in ended' => s \in ended \/ Renewed(s)
  BY <1>2 DEF Renewed
<1> QED
  BY <1>1, <1>3, ResetsSame

\* A refresh or a logout takes a reset token.
LEMMA ResetTaken ==
  ASSUME Base, ResetsInv, NEW t \in Token, row[t].type \in Reset, DeleteByToken(t),
         \A s \in Token : s # t => (Renewed(s)' <=> Renewed(s)),
         t \in ended' \/ Renewed(t)',
         \A q \in Proc, s \in Token :
           /\ At(q, "used", s)' <=> At(q, "used", s)
           /\ At(q, "set", s)' <=> At(q, "set", s),
         ended \subseteq ended', ended' \subseteq ended \cup {row[t].family},
         UNCHANGED <<row, lost, applied, again>>
  PROVE  ResetsInv'
<1>1. Issued(t) /\ row[t].family = t
  BY DEF Base, Drawn, Issued, Blank, Reset
<1>2. live' = live \ {t} /\ raced \subseteq raced' /\ live' \subseteq Token
  BY <1>1, DeleteType DEF Base
<1>3. t \notin raced' => t \in live
  BY <1>1 DEF DeleteByToken, Missed
<1>4. Untouched'
  <2> SUFFICES ASSUME NEW s \in live' \ raced', row[s].type \in Reset
               PROVE  s \notin ended' /\ ~ Renewed(s)'
    BY DEF Untouched
  <2>1. s # t /\ s \in Token /\ s \in live \ raced
    BY <1>2
  <2> QED
    BY <1>1, <2>1 DEF ResetsInv, Untouched
<1>5. Gone'
  <2> SUFFICES ASSUME NEW s \in Token, row[s].type \in Reset,
                      s \notin live' \cup applied \cup ended' \cup lost
               PROVE  Renewed(s)' \/ (row[s].type = "password" /\ \E p \in Proc : At(p, "used", s)')
    BY DEF Gone
  <2> QED
    BY <1>2 DEF ResetsInv, Gone
<1>6. PasswordOnce'
  <2> SUFFICES ASSUME NEW s \in Token, s \notin raced', row[s].type = "password"
               PROVE  /\ s \notin again
                      /\ s \in live' \/ Renewed(s)' => s \notin applied
                      /\ \A p \in Proc : At(p, "used", s) =>
                           s \notin live' \cup applied /\ ~ Renewed(s)'
                      /\ \A p, q \in Proc : At(p, "used", s) /\ At(q, "used", s) => p = q
    BY DEF PasswordOnce
  <2>1. CASE s = t
    BY <2>1, <1>2, <1>3 DEF ResetsInv, PasswordOnce
  <2>2. CASE s # t
    BY <2>2, <1>2 DEF ResetsInv, PasswordOnce
  <2> QED
    BY <2>1, <2>2
<1>7. PincodeOnce'
  <2> SUFFICES ASSUME NEW s \in Token, s \notin raced', row[s].type = "pincode"
               PROVE  /\ s \in applied /\ (s \in live' \/ Renewed(s)') =>
                           \E p \in Proc : At(p, "set", s)
                      /\ s \in again => \E p \in Proc : At(p, "set", s)
                      /\ s \in again \cap live' =>
                           \E p, q \in Proc : p # q /\ At(p, "set", s) /\ At(q, "set", s)
    BY DEF PincodeOnce
  <2>1. CASE s = t
    BY <2>1, <1>2, <1>3 DEF ResetsInv, PincodeOnce
  <2>2. CASE s # t
    BY <2>2, <1>2 DEF ResetsInv, PincodeOnce
  <2> QED
    BY <2>1, <2>2
<1> QED
  BY <1>4, <1>5, <1>6, <1>7 DEF ResetsInv

LEMMA RefreshDeleteResets ==
  ASSUME Base, ResetsInv, NEW p \in Proc, RefreshDelete(p)
  PROVE  ResetsInv'
<1> DEFINE t == request[p].token
<1>1. /\ request[p].pc = "found" /\ request[p] \in Handling
      /\ t \in Token /\ Issued(t)
      /\ row[t].type = "refresh" \/ row[t].type \in Reset
  BY ContinueType, TokenDrawn, FamilyHeld DEF RefreshDelete, Continue, Base
<1>2. /\ request'[p].pc = "renew" /\ request'[p].token = t
      /\ \A q \in Proc : q # p => request'[q] = request[q]
      /\ UNCHANGED <<row, ended, lost, applied, again>> /\ DeleteByToken(t)
  BY <1>1 DEF RefreshDelete, Continue, Handling, Base, TypeOK
<1>3. \A q \in Proc, s \in Token :
        /\ At(q, "used", s)' <=> At(q, "used", s)
        /\ At(q, "set", s)' <=> At(q, "set", s)
        /\ At(q, "renew", s)' <=> At(q, "renew", s) \/ (q = p /\ s = t)
  BY <1>1, <1>2 DEF At
<1>4. \A s \in Token : Renewed(s)' <=> Renewed(s) \/ s = t
  BY <1>2, <1>3, OpenedSame DEF Renewed
<1>5. CASE row[t].type \in Reset
  BY <1>1, <1>2, <1>3, <1>4, <1>5, ResetTaken
<1>6. CASE row[t].type = "refresh"
  <2>1. \A s \in Token : row[s].type \in Reset => (Renewed(s)' <=> Renewed(s))
    BY <1>4, <1>6 DEF Reset
  <2> QED
    BY <1>1, <1>2, <1>3, <1>6, <2>1, OtherDeleteResets DEF Reset
<1> QED
  BY <1>1, <1>5, <1>6

LEMMA LoginReplaceResets ==
  ASSUME Base, ResetsInv, NEW p \in Proc, LoginReplace(p)
  PROVE  ResetsInv'
<1> DEFINE t == request[p].token
<1>1. /\ request[p].pc = "replace" /\ request[p] \in Handling
      /\ t \in Token /\ Issued(t) /\ row[t].type \notin Reset
  BY ContinueType DEF LoginReplace, Continue, Base, RequestsFit, Fits
<1>2. request'[p].pc = "login"
  BY <1>1 DEF LoginReplace, Continue, Handling, Base, TypeOK
<1>3. \A q \in Proc, s \in Token :
        /\ At(q, "used", s)' <=> At(q, "used", s)
        /\ At(q, "set", s)' <=> At(q, "set", s)
        /\ At(q, "renew", s)' <=> At(q, "renew", s)
  BY <1>1, <1>2, HandsSame DEF LoginReplace, Continue
<1>4. \A s \in Token : Renewed(s)' <=> Renewed(s)
  BY <1>3, OpenedSame DEF LoginReplace, Renewed
<1> QED
  BY <1>1, <1>3, <1>4, OtherDeleteResets DEF LoginReplace

LEMMA LogoutResets ==
  ASSUME Base, ResetsInv, NEW t \in Token, Logout(t)
  PROVE  ResetsInv'
<1>1. \A q \in Proc, s \in Token :
        /\ At(q, "used", s)' <=> At(q, "used", s)
        /\ At(q, "set", s)' <=> At(q, "set", s)
        /\ At(q, "renew", s)' <=> At(q, "renew", s)
  BY DEF Logout, At
<1>2. \A s \in Token : Renewed(s)' <=> Renewed(s)
  BY <1>1, OpenedSame DEF Logout, Renewed
<1>3. Issued(t) /\ row[t].type \in Reset => row[t].family = t
  BY DEF Logout, Base, Drawn
<1>4. CASE row[t].type \in Reset
  BY <1>1, <1>2, <1>3, <1>4, ResetTaken DEF Logout
<1>5. CASE row[t].type \notin Reset
  BY <1>1, <1>2, <1>5, OtherDeleteResets DEF Logout
<1> QED
  BY <1>4, <1>5

LEMMA FamilyOfReset ==
  ASSUME Base, NEW t \in Token, row[t].type \in {"password", "pincode"}
  PROVE  row[t].family = t
BY DEF Base, Drawn, Reset

\* A reset moves no refresh.
LEMMA RenewedKept ==
  ASSUME row' = row, NEW p \in Proc, request[p].pc # "renew", request'[p].pc # "renew",
         \A q \in Proc : q # p => request'[q] = request[q]
  PROVE  \A t \in Token : Renewed(t)' <=> Renewed(t)
<1>1. \A q \in Proc, t \in Token : At(q, "renew", t)' <=> At(q, "renew", t)
  BY DEF At
<1> QED
  BY <1>1, OpenedSame DEF Renewed

LEMMA PasswordDeleteResets ==
  ASSUME Base, ResetsInv, NEW p \in Proc, PasswordDelete(p)
  PROVE  ResetsInv'
<1> DEFINE t == request[p].token
<1>1. /\ t \in Token /\ Issued(t) /\ row[t].type = "password"
      /\ request[p].pc = "checked"
  BY TokenDrawn DEF PasswordDelete, Continue
<1>2. request[p] \in Handling
  BY ContinueType DEF PasswordDelete, Base
<1>3. /\ request'[p].pc = "used" /\ request'[p].token = t
      /\ \A q \in Proc : q # p => request'[q] = request[q]
  BY <1>2 DEF PasswordDelete, Continue, Handling, Base, TypeOK
<1>4. /\ live' = live \ {t} /\ raced \subseteq raced'
      /\ UNCHANGED <<row, ended, lost, applied, again>>
  BY <1>1, DeleteType DEF PasswordDelete, Base
<1>5. t \notin raced' => t \in live /\ ~ Renewed(t)
  <2>1. row[t].family = t
    BY <1>1, FamilyOfReset
  <2> QED
    BY <2>1, <1>1, <1>4 DEF PasswordDelete, DeleteByToken, Missed, ResetsInv, Untouched, Reset
<1>6. \A q \in Proc, s \in Token :
        /\ At(q, "used", s)' <=> At(q, "used", s) \/ (q = p /\ s = t)
        /\ At(q, "set", s)' <=> At(q, "set", s)
  BY <1>1, <1>3 DEF At
<1>7. \A s \in Token : Renewed(s)' <=> Renewed(s)
  BY <1>1, <1>3, <1>4, RenewedKept
<1>8. Untouched'
  BY <1>4, <1>7 DEF ResetsInv, Untouched, Base, TypeOK
<1>9. Gone'
  BY <1>1, <1>4, <1>6, <1>7 DEF ResetsInv, Gone
<1>10. PasswordOnce'
  BY <1>1, <1>4, <1>5, <1>6, <1>7 DEF ResetsInv, PasswordOnce
<1>11. PincodeOnce'
  BY <1>1, <1>4, <1>6, <1>7 DEF ResetsInv, PincodeOnce
<1> QED
  BY <1>8, <1>9, <1>10, <1>11 DEF ResetsInv

LEMMA PasswordSetResets ==
  ASSUME Base, ResetsInv, NEW p \in Proc, PasswordSet(p)
  PROVE  ResetsInv'
<1> DEFINE t == request[p].token
<1>1. /\ t \in Token /\ row[t].type = "password" /\ At(p, "used", t)
  BY DEF PasswordSet, End, Base, RequestsFit, Fits, At
<1>2. /\ request'[p] = Free
      /\ \A q \in Proc : q # p => request'[q] = request[q]
  BY DEF PasswordSet, End, Base, TypeOK
<1>3. \A q \in Proc, s \in Token :
        /\ At(q, "used", s)' <=> At(q, "used", s) /\ q # p
        /\ At(q, "set", s)' <=> At(q, "set", s)
  BY <1>1, <1>2 DEF At, Free
<1>4. /\ UNCHANGED <<row, live, ended, raced, lost>>
      /\ applied' = applied \cup {t}
      /\ again' = IF t \in applied THEN again \cup {t} ELSE again
  BY DEF PasswordSet, Apply
<1>5. \A s \in Token : Renewed(s)' <=> Renewed(s)
  BY <1>1, <1>2, <1>4, RenewedKept DEF At, Free
<1>6. Untouched'
  BY <1>4, <1>5 DEF ResetsInv, Untouched, Base, TypeOK
<1>7. Gone'
  <2> SUFFICES ASSUME NEW s \in Token, row[s].type \in Reset,
                      s \notin live \cup applied' \cup ended \cup lost
               PROVE  Renewed(s)' \/ (row[s].type = "password" /\ \E q \in Proc : At(q, "used", s)')
    BY <1>4 DEF Gone
  <2>1. s # t /\ s \notin live \cup applied \cup ended \cup lost
    BY <1>4
  <2>2. \A q \in Proc : At(q, "used", s) => At(q, "used", s)'
    BY <1>1, <1>3, <2>1 DEF At
  <2> QED
    BY <1>5, <2>1, <2>2 DEF ResetsInv, Gone
<1>8. PasswordOnce'
  BY <1>1, <1>3, <1>4, <1>5 DEF ResetsInv, PasswordOnce
<1>9. PincodeOnce'
  BY <1>1, <1>3, <1>4, <1>5 DEF ResetsInv, PincodeOnce
<1> QED
  BY <1>6, <1>7, <1>8, <1>9 DEF ResetsInv

LEMMA PincodeSetResets ==
  ASSUME Base, ResetsInv, NEW p \in Proc, PincodeSet(p)
  PROVE  ResetsInv'
<1> DEFINE t == request[p].token
<1>1. /\ t \in Token /\ row[t].type = "pincode" /\ request[p].pc = "checked"
  BY DEF PincodeSet, Continue, Base, RequestsFit, Fits
<1>2. request[p] \in Handling
  BY ContinueType DEF PincodeSet, Base
<1>3. /\ request'[p].pc = "set" /\ request'[p].token = t
      /\ \A q \in Proc : q # p => request'[q] = request[q]
  BY <1>2 DEF PincodeSet, Continue, Handling, Base, TypeOK
<1>4. \A q \in Proc, s \in Token :
        /\ At(q, "used", s)' <=> At(q, "used", s)
        /\ At(q, "set", s)' <=> At(q, "set", s) \/ (q = p /\ s = t)
  BY <1>1, <1>3 DEF At
<1>5. /\ UNCHANGED <<row, live, ended, raced, lost>>
      /\ applied' = applied \cup {t}
      /\ again' = IF t \in applied THEN again \cup {t} ELSE again
      /\ ~ At(p, "set", t)
  BY <1>1 DEF PincodeSet, Apply, At
<1>6. \A s \in Token : Renewed(s)' <=> Renewed(s)
  BY <1>1, <1>3, <1>5, RenewedKept
<1>7. Untouched'
  BY <1>5, <1>6 DEF ResetsInv, Untouched, Base, TypeOK
<1>8. Gone'
  BY <1>4, <1>5, <1>6 DEF ResetsInv, Gone
<1>9. PasswordOnce'
  BY <1>1, <1>4, <1>5, <1>6 DEF ResetsInv, PasswordOnce
<1>10. PincodeOnce'
  BY <1>1, <1>4, <1>5, <1>6 DEF ResetsInv, PincodeOnce
<1> QED
  BY <1>7, <1>8, <1>9, <1>10 DEF ResetsInv

LEMMA PincodeDeleteResets ==
  ASSUME Base, ResetsInv, NEW p \in Proc, PincodeDelete(p)
  PROVE  ResetsInv'
<1> DEFINE t == request[p].token
<1>1. /\ t \in Token /\ Issued(t) /\ row[t].type = "pincode" /\ t \in applied
      /\ request[p].pc = "set"
  BY TokenDrawn DEF PincodeDelete, End, Base, RequestsFit, Fits
<1>2. /\ request'[p] = Free
      /\ \A q \in Proc : q # p => request'[q] = request[q]
  BY DEF PincodeDelete, End, Base, TypeOK
<1>3. \A q \in Proc, s \in Token :
        /\ At(q, "used", s)' <=> At(q, "used", s)
        /\ At(q, "set", s)' <=> At(q, "set", s) /\ q # p
  BY <1>1, <1>2 DEF At, Free
<1>4. \A s \in Token : At(p, "set", s) => s = t
  BY DEF At
<1>5. /\ live' = live \ {t} /\ raced \subseteq raced'
      /\ UNCHANGED <<row, ended, lost, applied, again>>
  BY <1>1, DeleteType DEF PincodeDelete, Base
<1>6. t \notin raced' => t \in live /\ ~ Renewed(t)
  <2>1. row[t].family = t
    BY <1>1, FamilyOfReset
  <2> QED
    BY <2>1, <1>1, <1>5 DEF PincodeDelete, DeleteByToken, Missed, ResetsInv, Untouched, Reset
<1>7. \A s \in Token : Renewed(s)' <=> Renewed(s)
  BY <1>1, <1>2, <1>5, RenewedKept DEF Free
<1>8. Untouched'
  BY <1>5, <1>7 DEF ResetsInv, Untouched, Base, TypeOK
<1>9. Gone'
  BY <1>1, <1>3, <1>5, <1>7 DEF ResetsInv, Gone
<1>10. PasswordOnce'
  BY <1>1, <1>3, <1>5, <1>7 DEF ResetsInv, PasswordOnce
<1>11. PincodeOnce'
  <2> SUFFICES ASSUME NEW s \in Token, s \notin raced', row[s].type = "pincode"
               PROVE  /\ s \in applied /\ (s \in live' \/ Renewed(s)') =>
                           \E q \in Proc : At(q, "set", s)'
                      /\ s \in again => \E q \in Proc : At(q, "set", s)'
                      /\ s \in again \cap live' =>
                           \E q, r \in Proc : q # r /\ At(q, "set", s)' /\ At(r, "set", s)'
    BY <1>5 DEF PincodeOnce
  <2>1. CASE s = t
    BY <2>1, <1>3, <1>5, <1>6, <1>7 DEF ResetsInv, PincodeOnce
  <2>2. CASE s # t
    <3>1. \A q \in Proc : At(q, "set", s)' <=> At(q, "set", s)
      BY <2>2, <1>3, <1>4
    <3> QED
      BY <2>2, <3>1, <1>5, <1>7 DEF ResetsInv, PincodeOnce
  <2> QED
    BY <2>1, <2>2
<1> QED
  BY <1>8, <1>9, <1>10, <1>11 DEF ResetsInv

LEMMA ApiCrashResets ==
  ASSUME Base, ResetsInv, ApiCrash
  PROVE  ResetsInv'
<1>1. /\ \A p \in Proc, t \in Token :
           ~ At(p, "used", t)' /\ ~ At(p, "set", t)' /\ ~ At(p, "renew", t)'
      /\ UNCHANGED <<row, live, ended, applied, again>>
      /\ raced \subseteq raced' /\ lost \subseteq lost'
  BY DEF ApiCrash, At, Free
<1>2. \A p \in Proc, t \in Token : At(p, "used", t) => t \in lost'
  BY DEF ApiCrash, TokensAt, At
<1>3. \A p \in Proc, t \in Token : At(p, "renew", t) => row[t].family \in lost'
  BY DEF ApiCrash, TokensAt, At
<1>4. \A p \in Proc, t \in Token : At(p, "set", t) => t \in raced'
  BY DEF ApiCrash, TokensAt, At
<1>5. \A t \in Token : Renewed(t)' <=> Opened(t)
  BY <1>1, OpenedSame DEF Renewed
<1>6. Untouched'
  BY <1>1, <1>5 DEF ResetsInv, Untouched, Base, TypeOK, Renewed
<1>7. Gone'
  <2> SUFFICES ASSUME NEW t \in Token, row[t].type \in Reset,
                      t \notin live \cup applied \cup ended \cup lost'
               PROVE  Renewed(t)'
    BY <1>1 DEF Gone
  <2>1. row[t].family = t
    BY FamilyOfReset DEF Reset
  <2> QED
    BY <1>1, <1>2, <1>3, <1>5, <2>1 DEF ResetsInv, Gone, Renewed
<1>8. PasswordOnce'
  BY <1>1, <1>5 DEF ResetsInv, PasswordOnce, Renewed
<1>9. PincodeOnce'
  BY <1>1, <1>4, <1>5 DEF ResetsInv, PincodeOnce, Renewed
<1> QED
  BY <1>6, <1>7, <1>8, <1>9 DEF ResetsInv

-----------------------------------------------------------------------------
(* The invariant holds at first and is kept by every step.                 *)

LEMMA InitInv ==
  ASSUME SessionsAssumption, Init
  PROVE  SessionsInv
<1>1. Base
  BY DEF Init, Base, TypeOK, Families, Drawn, RequestsFit, Fits, Issued, Blank, Free, Reset
<1>2. HoldersInv
  BY DEF Init, HoldersInv, OneHolds, NoneHolds, SomeHolds, RowHolds, RequestHolds, Opened,
         Blank, Free
<1>3. ResetsInv
  BY DEF Init, ResetsInv, Untouched, Gone, PasswordOnce, PincodeOnce, Blank, Reset
<1> QED
  BY <1>1, <1>2, <1>3 DEF SessionsInv, Base, HoldersInv, ResetsInv

LEMMA StepInv ==
  ASSUME SessionsAssumption, SessionsInv, Next
  PROVE  SessionsInv'
<1>1. Base /\ HoldersInv /\ ResetsInv
  BY DEF SessionsInv, Base, HoldersInv, ResetsInv
<1>2. ASSUME NEW t \in Token, NEW u \in User, NEW d \in Device, CreateAccount(t, u, d)
      PROVE  Base' /\ HoldersInv' /\ ResetsInv'
  <2>1. HoldersInv'
    BY <1>1, <1>2, NewRowHolders DEF CreateAccount, Reset
  <2>2. ResetsInv'
    BY <1>1, <1>2, NewRowResets DEF CreateAccount
  <2> QED
    BY <1>1, <1>2, <2>1, <2>2, CreateAccountBase
<1>3. ASSUME NEW t \in Token, NEW u \in User, NEW type \in Reset, ConfirmCode(t, u, type)
      PROVE  Base' /\ HoldersInv' /\ ResetsInv'
  <2>1. HoldersInv'
    BY <1>1, <1>3, NewRowHolders DEF ConfirmCode
  <2>2. ResetsInv'
    BY <1>1, <1>3, NewRowResets DEF ConfirmCode
  <2> QED
    BY <1>1, <1>3, <2>1, <2>2, ConfirmCodeBase
<1>4. ASSUME NEW p \in Proc, NEW d \in Device, NEW t \in Token, RefreshFind(p, t, d)
      PROVE  Base' /\ HoldersInv' /\ ResetsInv'
  BY <1>1, <1>4, RefreshFindBase, BeginHolders, BeginResets DEF RefreshFind
<1>5. ASSUME NEW p \in Proc, NEW d \in Device, NEW u \in User, LoginFind(p, u, d)
      PROVE  Base' /\ HoldersInv' /\ ResetsInv'
  <2>1. PICK pc \in {"replace", "login"}, t \in Token \cup {Null} : Begin(p, pc, u, d, t)
    BY <1>5, <1>1 DEF LoginFind, OnDevice, Base, TypeOK
  <2> QED
    BY <1>1, <1>5, <2>1, LoginFindBase, BeginHolders, BeginResets DEF LoginFind
<1>6. ASSUME NEW p \in Proc, NEW t \in Token, ResetCheck(p, t)
      PROVE  Base' /\ HoldersInv' /\ ResetsInv'
  BY <1>1, <1>6, ResetCheckBase, BeginHolders, BeginResets DEF ResetCheck
<1>7. ASSUME NEW t \in Token, Logout(t)
      PROVE  Base' /\ HoldersInv' /\ ResetsInv'
  BY <1>1, <1>7, LogoutBase, LogoutHolders, LogoutResets DEF ResetsInv
<1>8. ASSUME NEW p \in Proc, RefreshStep(p)
      PROVE  Base' /\ HoldersInv' /\ ResetsInv'
  <2>1. CASE RefreshDelete(p)
    BY <1>1, <2>1, RefreshDeleteBase, RefreshDeleteHolders, RefreshDeleteResets DEF ResetsInv
  <2>2. ASSUME NEW t \in Token, RefreshRenew(p, t)
        PROVE  Base' /\ HoldersInv' /\ ResetsInv'
    BY <1>1, <2>2, RefreshRenewBase, RefreshRenewHolders, RefreshRenewResets
  <2> QED
    BY <1>8, <2>1, <2>2 DEF RefreshStep
<1>9. ASSUME NEW p \in Proc, LoginStep(p)
      PROVE  Base' /\ HoldersInv' /\ ResetsInv'
  <2>1. CASE LoginReplace(p)
    BY <1>1, <2>1, LoginReplaceBase, LoginReplaceHolders, LoginReplaceResets DEF ResetsInv
  <2>2. ASSUME NEW t \in Token, LoginIssue(p, t)
        PROVE  Base' /\ HoldersInv' /\ ResetsInv'
    BY <1>1, <2>2, LoginIssueBase, LoginIssueHolders, LoginIssueResets
  <2> QED
    BY <1>9, <2>1, <2>2 DEF LoginStep
<1>10. ASSUME NEW p \in Proc, ResetStep(p)
       PROVE  Base' /\ HoldersInv' /\ ResetsInv'
  <2>1. CASE PasswordDelete(p)
    BY <1>1, <2>1, PasswordDeleteBase, PasswordDeleteHolders, PasswordDeleteResets
  <2>2. CASE PasswordSet(p)
    BY <1>1, <2>2, PasswordSetBase, PasswordSetHolders, PasswordSetResets
  <2>3. CASE PincodeSet(p)
    BY <1>1, <2>3, PincodeSetBase, PincodeSetHolders, PincodeSetResets
  <2>4. CASE PincodeDelete(p)
    BY <1>1, <2>4, PincodeDeleteBase, PincodeDeleteHolders, PincodeDeleteResets
  <2> QED
    BY <1>10, <2>1, <2>2, <2>3, <2>4 DEF ResetStep
<1>11. ASSUME ApiCrash
       PROVE  Base' /\ HoldersInv' /\ ResetsInv'
  BY <1>1, <1>11, ApiCrashBase, ApiCrashHolders, ApiCrashResets
<1>12. Base' /\ HoldersInv' /\ ResetsInv'
  BY <1>2, <1>3, <1>4, <1>5, <1>6, <1>7, <1>8, <1>9, <1>10, <1>11 DEF Next
<1> QED
  BY <1>12 DEF SessionsInv, Base, HoldersInv, ResetsInv

LEMMA StutterInv ==
  ASSUME SessionsInv, UNCHANGED vars
  PROVE  SessionsInv'
<1>1. Base' /\ HoldersInv'
  BY DEF vars, SessionsInv, Base, TypeOK, Families, Drawn, RequestsFit, Fits, Issued,
         HoldersInv, OneHolds, NoneHolds, SomeHolds, Opened, RowHolds, RequestHolds
<1>2. ResetsInv'
  BY DEF vars, SessionsInv, ResetsInv, Untouched, Gone, PasswordOnce, PincodeOnce,
         Renewed, Opened, At
<1> QED
  BY <1>1, <1>2 DEF SessionsInv, Base, HoldersInv, ResetsInv

-----------------------------------------------------------------------------
(***************************************************************************)
(* The invariant of the token table under every hazard: a session has one  *)
(* holder, and a reset token is in the table, used by one request, or      *)
(* gone for a reason; a refresh and a logout may take it.                  *)
(***************************************************************************)
THEOREM SessionsInvariant == Spec => []SessionsInv
<1>1. Init => SessionsInv
  BY InitInv, SessionsAssumption
<1>2. SessionsInv /\ [Next]_vars => SessionsInv'
  BY StepInv, StutterInv, SessionsAssumption
<1> QED
  BY <1>1, <1>2, PTL DEF Spec

(***************************************************************************)
(* The variables keep their types: no request deletes or applies a token   *)
(* that was never drawn.                                                   *)
(***************************************************************************)
THEOREM TypeCorrect == Spec => []TypeOK
<1>1. SessionsInv => TypeOK
  BY DEF SessionsInv
<1> QED
  BY <1>1, SessionsInvariant, PTL

(***************************************************************************)
(* However refreshes, logouts and logins overlap, a session splits or      *)
(* outlives its end only if a delete found no row (deleteByToken).         *)
(***************************************************************************)
THEOREM OneHolder == Spec => []SessionsAreOne
<1>1. SessionsInv => SessionsAreOne
  <2> SUFFICES ASSUME SessionsInv, NEW f \in Session \ raced
               PROVE  AtMostOne(Holders(f)) /\ (f \in ended => Holders(f) = {})
    BY DEF SessionsAreOne
  <2>1. /\ f \in Token \ raced
        /\ \A h \in Holders(f) :
             \/ \E t \in Token : h = <<"row", t>> /\ RowHolds(t, f)
             \/ \E p \in Proc : h = <<"request", p>> /\ RequestHolds(p, f)
    BY SessionOpened DEF Holders, RowHolds, RequestHolds, SessionsInv, TypeOK
  <2>2. AtMostOne(Holders(f))
    BY <2>1 DEF AtMostOne, SessionsInv, OneHolds
  <2>3. f \in ended => Holders(f) = {}
    BY <2>1 DEF SessionsInv, OneHolds, NoneHolds
  <2> QED
    BY <2>2, <2>3
<1> QED
  BY <1>1, SessionsInvariant, PTL

(***************************************************************************)
(* A session goes on until a logout or a login on its device ends it,      *)
(* unless the process dies between the delete and the insert of a refresh. *)
(***************************************************************************)
THEOREM KeptUntilEnded == Spec => []SessionsAreKept
<1>1. SessionsInv => SessionsAreKept
  <2> SUFFICES ASSUME SessionsInv, NEW f \in Session \ (ended \cup lost)
               PROVE  Holders(f) # {}
    BY DEF SessionsAreKept
  <2>1. (\E t \in Token : RowHolds(t, f)) \/ (\E p \in Proc : RequestHolds(p, f))
    BY SessionOpened DEF SessionsInv, SomeHolds
  <2> QED
    BY <2>1 DEF Holders, RowHolds, RequestHolds
<1> QED
  BY <1>1, SessionsInvariant, PTL

(***************************************************************************)
(* A reset token that is gone has set a PIN or a password, unless a logout *)
(* or a refresh took it, or the process died after passwordReset or        *)
(* refreshTokens deleted it.                                               *)
(***************************************************************************)
THEOREM ResetsDoTheirWork == Spec => []ResetsAreKept
<1>1. SessionsInv => ResetsAreKept
  <2> SUFFICES ASSUME SessionsInv, NEW t \in Token \ (live \cup applied \cup Taken)
               PROVE  /\ row[t].type = "password" => t \in lost \cup TokensAt("used")
                      /\ row[t].type = "pincode" => t \in lost
    BY DEF ResetsAreKept
  <2>1. ~ Renewed(t) /\ t \notin ended
    BY SessionOpened DEF Taken, TokensAt, Renewed, At, SessionsInv
  <2>2. \A p \in Proc : At(p, "used", t) => t \in TokensAt("used")
    BY DEF TokensAt, At
  <2> QED
    BY <2>1, <2>2 DEF SessionsInv, Gone, Reset
<1> QED
  BY <1>1, SessionsInvariant, PTL

(***************************************************************************)
(* A reset token works once: a second reset with it, or a session opened   *)
(* with it besides, is still under way, or shows in a delete that found no *)
(* row or in a death before it.                                            *)
(***************************************************************************)
THEOREM ResetsWorkOnce == Spec => []ResetsAreOnce
<1>1. SessionsInv => ResetsAreOnce
  <2> SUFFICES ASSUME SessionsInv, NEW t \in (again \cup (applied \cap Session)) \ raced
               PROVE  \E p \in Proc : request[p].token = t
    BY DEF ResetsAreOnce
  <2>1. t \in Token \ raced /\ t \in applied /\ row[t].type \in Reset
    BY DEF SessionsInv, TypeOK, Drawn
  <2>2. t \in again \/ Renewed(t)
    BY SessionOpened DEF SessionsInv, Renewed
  <2> QED
    BY <2>1, <2>2 DEF SessionsInv, PasswordOnce, PincodeOnce, At, Reset
<1> QED
  BY <1>1, SessionsInvariant, PTL

-----------------------------------------------------------------------------
(* One session per device.                                                 *)

OnIt(t, u, d) == t \in live /\ row[t].user = u /\ row[t].device = d

\* No delete found its row gone and no reset token became a session.
Steady == raced = {} /\ \A t \in Token : Opened(t) => row[t].type \notin Reset

\* A request that is about to save a row for the user and device, as a session's.
AsksFor(p, u, d) ==
  /\ \/ request[p].pc = "login"
     \/ request[p].pc = "renew" /\ row[request[p].token].type = "refresh"
  /\ request[p].user = u /\ request[p].device = d

OneEach ==
  Steady => \A u \in User, d \in Device :
    /\ \A s, t \in Token : OnIt(s, u, d) /\ OnIt(t, u, d) => s = t
    /\ \A p, q \in Proc : AsksFor(p, u, d) /\ AsksFor(q, u, d) => p = q
    /\ \A t \in Token, p \in Proc : ~ (OnIt(t, u, d) /\ AsksFor(p, u, d))

\* Rows and requests are those of users who have an account.
Known ==
  /\ \A t \in Token : Issued(t) => HasAccount(row[t].user)
  /\ \A p \in Proc : request[p].pc # "free" => HasAccount(request[p].user)

\* A request that will replace a row comes from its user and its device, if it
\* has one.
Matches(p) ==
  request[p].pc \in {"found", "replace"} =>
    /\ row[request[p].token].user = request[p].user
    /\ \/ row[request[p].token].type \in Reset
       \/ row[request[p].token].device = request[p].device

DeviceInv == OneEach /\ Known /\ \A p \in Proc : Matches(p)

LEMMA AccountsStay ==
  ASSUME \A s \in Token : Issued(s) => row'[s] = row[s], NEW u, HasAccount(u)
  PROVE  HasAccount(u)'
<1>1. PICK t \in Token : row[t].type = "create" /\ row[t].user = u
  BY DEF HasAccount
<1>2. Issued(t)
  BY <1>1 DEF Issued, Blank
<1>3. QED
  BY <1>1, <1>2 DEF HasAccount

\* Rows stay what they are, so a table that is steady was so before.
LEMMA SteadyBefore ==
  ASSUME \A s \in Token : Issued(s) => row'[s] = row[s], raced \subseteq raced'
  PROVE  Steady' => Steady
<1> SUFFICES ASSUME Steady', NEW t \in Token, Opened(t), row[t].type \in Reset
             PROVE  FALSE
  BY DEF Steady
<1>1. Opened(t)'
  BY DEF Opened, Issued, Blank
<1>2. row'[t].type \in Reset
  BY DEF Issued, Blank, Reset
<1>3. QED
  BY <1>1, <1>2 DEF Steady

(***************************************************************************)
(* A step after which no row is new, and each request is the one it was or *)
(* asks for none.                                                          *)
(***************************************************************************)
LEMMA FewerOnDevices ==
  ASSUME DeviceInv, UNCHANGED row, live' \subseteq live, raced \subseteq raced',
         \A p \in Proc :
           \/ request'[p] = request[p]
           \/ /\ request'[p].pc \notin {"renew", "login"}
              /\ request'[p].pc # "free" => HasAccount(request'[p].user)
              /\ request'[p].pc \in {"found", "replace"} =>
                   /\ row[request'[p].token].user = request'[p].user
                   /\ \/ row[request'[p].token].type \in Reset
                      \/ row[request'[p].token].device = request'[p].device
  PROVE  DeviceInv'
<1>1. \A t, u, d : OnIt(t, u, d)' => OnIt(t, u, d)
  BY DEF OnIt
<1>2. \A p \in Proc : \A u, d : AsksFor(p, u, d)' => AsksFor(p, u, d)
  BY DEF AsksFor
<1>3. OneEach'
  <2>1. Steady' => Steady
    BY DEF Steady, Opened
  <2> QED
    BY <1>1, <1>2, <2>1 DEF DeviceInv, OneEach
<1>4. \A u : HasAccount(u)' <=> HasAccount(u)
  BY DEF HasAccount
<1>5. ASSUME NEW t \in Token, Issued(t)'
      PROVE  HasAccount(row[t].user)'
  BY <1>4, <1>5 DEF DeviceInv, Known, Issued, HasAccount
<1>6. ASSUME NEW p \in Proc, request'[p].pc # "free"
      PROVE  HasAccount(request[p].user)'
  BY <1>6 DEF DeviceInv, Known, HasAccount
<1>7. Known'
  BY <1>5, <1>6 DEF Known
<1>8. \A p \in Proc : Matches(p)'
  BY DEF DeviceInv, Matches
<1>9. QED
  BY <1>3, <1>7, <1>8 DEF DeviceInv

\* A new row for the user of a request that no longer asks for it, or for no device.
LEMMA RowOnDevice ==
  ASSUME Base, DeviceInv, NEW t \in Token, NEW type \in {"create", "refresh"} \cup Reset,
         NEW u \in User, NEW d \in Device \cup {Null}, NEW f \in Token,
         Generate(t, type, u, d, f), UNCHANGED raced,
         HasAccount(u) \/ type = "create",
         \A p \in Proc :
           request'[p] = request[p] \/ request'[p].pc = "free",
         Steady /\ Steady' /\ d \in Device =>
           /\ \A s \in Token : ~ OnIt(s, u, d)
           /\ \A p \in Proc : ~ AsksFor(p, u, d)'
  PROVE  DeviceInv'
<1>1. row' = [row EXCEPT ![t] = [type |-> type, user |-> u, device |-> d, family |-> f]]
      /\ live' = live \cup {t} /\ ~ Issued(t)
  BY DEF Generate
<1>2. \A s \in Token : Issued(s) => row'[s] = row[s]
  BY <1>1 DEF Base, TypeOK
<1>3. /\ row'[t] = [type |-> type, user |-> u, device |-> d, family |-> f]
      /\ \A s \in Token \ {t} : row'[s] = row[s]
  BY <1>1 DEF Base, TypeOK
<1>4. \A s \in Token : \A v, e : OnIt(s, v, e)' => OnIt(s, v, e) \/ (s = t /\ v = u /\ e = d)
  BY <1>1, <1>3 DEF OnIt
<1>5. \A p \in Proc : \A v, e : AsksFor(p, v, e)' => AsksFor(p, v, e)
  <2> SUFFICES ASSUME NEW p \in Proc, request'[p] = request[p], request[p].pc = "renew",
                      row'[request[p].token].type = "refresh"
               PROVE  row[request[p].token].type = "refresh"
    BY DEF AsksFor
  <2> QED
    BY <1>2, TokenDrawn
<1>6. OneEach'
  <2>1. ASSUME Steady', NEW v \in User, NEW e \in Device
        PROVE  /\ \A s, r \in Token : OnIt(s, v, e)' /\ OnIt(r, v, e)' => s = r
               /\ \A p, q \in Proc : AsksFor(p, v, e)' /\ AsksFor(q, v, e)' => p = q
               /\ \A s \in Token, p \in Proc : ~ (OnIt(s, v, e)' /\ AsksFor(p, v, e)')
    <3>1. Steady
      BY <1>2, <2>1, SteadyBefore
    <3>2. CASE v = u /\ e = d
      BY <1>4, <1>5, <2>1, <3>1, <3>2 DEF DeviceInv, OneEach
    <3>3. CASE ~ (v = u /\ e = d)
      BY <1>4, <1>5, <3>1, <3>3 DEF DeviceInv, OneEach
    <3>4. QED
      BY <3>2, <3>3
  <2>2. QED
    BY <2>1 DEF OneEach
<1>7. HasAccount(u)'
  <2>1. CASE type = "create"
    BY <1>3, <2>1 DEF HasAccount
  <2>2. CASE HasAccount(u)
    BY <1>2, <2>2, AccountsStay
  <2>3. QED
    BY <2>1, <2>2
<1>8. ASSUME NEW s \in Token, Issued(s)'
      PROVE  HasAccount(row[s].user)'
  <2>1. PICK v : v = row'[s].user
    OBVIOUS
  <2>2. HasAccount(v)'
    <3>1. CASE s = t
      BY <1>3, <1>7, <2>1, <3>1
    <3>2. CASE s # t
      <4>1. Issued(s) /\ v = row[s].user
        BY <1>3, <1>8, <2>1, <3>2 DEF Issued
      <4>2. HasAccount(v)
        BY <4>1 DEF DeviceInv, Known
      <4>3. QED
        BY <1>2, <4>2, AccountsStay
    <3>3. QED
      BY <3>1, <3>2
  <2>3. QED
    BY <2>1, <2>2
<1>9. ASSUME NEW p \in Proc, request'[p].pc # "free"
      PROVE  HasAccount(request[p].user)'
  <2>1. PICK v : v = request'[p].user
    OBVIOUS
  <2>2. HasAccount(v)
    BY <1>9, <2>1 DEF DeviceInv, Known
  <2>3. HasAccount(v)'
    BY <1>2, <2>2, AccountsStay
  <2>4. QED
    BY <2>1, <2>3
<1>10. Known'
  BY <1>8, <1>9 DEF Known
<1>11. ASSUME NEW p \in Proc, request'[p].pc \in {"found", "replace"}
       PROVE  /\ row'[request'[p].token].user = request'[p].user
              /\ \/ row'[request'[p].token].type \in Reset
                 \/ row'[request'[p].token].device = request'[p].device
  <2>1. request'[p] = request[p] /\ Matches(p)
    BY <1>11 DEF DeviceInv
  <2>2. request[p].token \in Token /\ Issued(request[p].token)
    BY <1>11, <2>1, TokenDrawn
  <2>3. QED
    BY <1>2, <1>11, <2>1, <2>2 DEF Matches
<1>12. \A p \in Proc : Matches(p)'
  BY <1>11 DEF Matches
<1>13. QED
  BY <1>6, <1>10, <1>12 DEF DeviceInv

(***************************************************************************)
(* A request that deletes the row it replaces asks for the next in the     *)
(* same step; a row it finds gone shows in raced.                          *)
(***************************************************************************)
LEMMA HandedOver ==
  ASSUME Base, DeviceInv, NEW p \in Proc, NEW from \in {"found", "replace"},
         NEW to \in {"renew", "login"}, Continue(p, from, to), to = "login" => from = "replace",
         DeleteByToken(request[p].token), UNCHANGED row
  PROVE  DeviceInv'
<1>1. PICK t, u, d :
        /\ t \in Token /\ t = request[p].token /\ u = request[p].user /\ d = request[p].device
        /\ Issued(t) /\ row[t].user = u
        /\ row[t].type \in Reset \/ row[t].device = d
  BY TokenDrawn DEF Continue, DeviceInv, Matches
<1>2. /\ request[p] \in Handling /\ request[p].pc = from
      /\ request' = [request EXCEPT ![p].pc = to]
      /\ live' = live \ {t}
      /\ raced' = IF t \in live THEN raced ELSE raced \cup {row[t].family}
      /\ to = "login" => row[t].type \notin Reset
  BY <1>1 DEF Base, TypeOK, Continue, Free, DeleteByToken, Missed, RequestsFit, Fits
<1>3. /\ request'[p].pc = to /\ request'[p].user = u /\ request'[p].device = d
      /\ request'[p].token = t
      /\ \A q \in Proc \ {p} : request'[q] = request[q]
  BY <1>1, <1>2 DEF Base, TypeOK, Handling
<1>4. \A s \in Token : \A v, e : OnIt(s, v, e)' => OnIt(s, v, e) /\ s # t
  BY <1>2 DEF OnIt
<1>5. \A q \in Proc : \A v, e : AsksFor(q, v, e)' =>
        AsksFor(q, v, e) \/ (q = p /\ v = u /\ e = d /\ row[t].type \notin Reset)
  BY <1>2, <1>3 DEF AsksFor, Reset
<1>6. OneEach'
  <2>1. ASSUME Steady', NEW v \in User, NEW e \in Device
        PROVE  /\ \A s, r \in Token : OnIt(s, v, e)' /\ OnIt(r, v, e)' => s = r
               /\ \A q, r \in Proc : AsksFor(q, v, e)' /\ AsksFor(r, v, e)' => q = r
               /\ \A s \in Token, q \in Proc : ~ (OnIt(s, v, e)' /\ AsksFor(q, v, e)')
    <3>1. t \in live /\ Steady
      BY <1>2, <2>1, SteadyBefore DEF Steady
    <3>2. CASE v = u /\ e = d /\ row[t].type \notin Reset
      <4>1. OnIt(t, u, d)
        BY <1>1, <3>1, <3>2 DEF OnIt
      <4>2. \A s \in Token : ~ OnIt(s, v, e)'
        BY <1>1, <1>4, <3>1, <3>2, <4>1 DEF DeviceInv, OneEach
      <4>3. \A q \in Proc : AsksFor(q, v, e)' => q = p
        BY <1>1, <1>5, <3>1, <3>2, <4>1 DEF DeviceInv, OneEach
      <4>4. QED
        BY <4>2, <4>3
    <3>3. CASE ~ (v = u /\ e = d /\ row[t].type \notin Reset)
      BY <1>4, <1>5, <3>1, <3>3 DEF DeviceInv, OneEach
    <3>4. QED
      BY <3>2, <3>3
  <2>2. QED
    BY <2>1 DEF OneEach
<1>7. \A v : HasAccount(v)' <=> HasAccount(v)
  BY DEF HasAccount
<1>8. HasAccount(u)
  BY <1>1, <1>2 DEF DeviceInv, Known
<1>9. ASSUME NEW s \in Token, Issued(s)'
      PROVE  HasAccount(row[s].user)'
  BY <1>9 DEF DeviceInv, Known, Issued, HasAccount
<1>10. ASSUME NEW q \in Proc, request'[q].pc # "free"
       PROVE  HasAccount(request[q].user)'
  <2>1. PICK v : v = request'[q].user
    OBVIOUS
  <2>2. HasAccount(v)
    BY <1>3, <1>8, <1>10, <2>1 DEF DeviceInv, Known
  <2>3. QED
    BY <1>7, <2>1, <2>2
<1>11. Known'
  BY <1>9, <1>10 DEF Known
<1>12. \A q \in Proc : Matches(q)'
  BY <1>3 DEF DeviceInv, Matches
<1>13. QED
  BY <1>6, <1>11, <1>12 DEF DeviceInv

\* A login on a device that has no row, while its user has no other request.
LEMMA LoginAsks ==
  ASSUME Base, DeviceInv, NEW p \in Proc, NEW u \in User, NEW d \in Device,
         Begin(p, "login", u, d, Null), HasAccount(u), OnDevice(u, d) = {}, Active(u) = {},
         UNCHANGED <<row, live, raced>>
  PROVE  DeviceInv'
<1>1. /\ request'[p] = [pc |-> "login", user |-> u, device |-> d, token |-> Null]
      /\ \A q \in Proc \ {p} : request'[q] = request[q]
  BY DEF Begin, Base, TypeOK
<1>2. \A t \in Token : ~ OnIt(t, u, d)
  BY DEF OnIt, OnDevice
<1>3. \A q \in Proc : ~ AsksFor(q, u, d)
  BY DEF AsksFor, Active
<1>4. \A t, v, e : OnIt(t, v, e)' <=> OnIt(t, v, e)
  BY DEF OnIt
<1>5. \A q \in Proc : \A v, e : AsksFor(q, v, e)' => AsksFor(q, v, e) \/ (q = p /\ v = u /\ e = d)
  BY <1>1 DEF AsksFor
<1>6. OneEach'
  <2>1. ASSUME Steady', NEW v \in User, NEW e \in Device
        PROVE  /\ \A s, r \in Token : OnIt(s, v, e)' /\ OnIt(r, v, e)' => s = r
               /\ \A q, r \in Proc : AsksFor(q, v, e)' /\ AsksFor(r, v, e)' => q = r
               /\ \A s \in Token, q \in Proc : ~ (OnIt(s, v, e)' /\ AsksFor(q, v, e)')
    <3>1. Steady
      BY <2>1, SteadyBefore
    <3>2. CASE v = u /\ e = d
      BY <1>2, <1>3, <1>4, <1>5, <3>2
    <3>3. CASE ~ (v = u /\ e = d)
      BY <1>4, <1>5, <3>1, <3>3 DEF DeviceInv, OneEach
    <3>4. QED
      BY <3>2, <3>3
  <2>2. QED
    BY <2>1 DEF OneEach
<1>7. \A v : HasAccount(v)' <=> HasAccount(v)
  BY DEF HasAccount
<1>8. ASSUME NEW s \in Token, Issued(s)'
      PROVE  HasAccount(row[s].user)'
  BY <1>8 DEF DeviceInv, Known, Issued, HasAccount
<1>9. ASSUME NEW q \in Proc, request'[q].pc # "free"
      PROVE  HasAccount(request[q].user)'
  <2>1. PICK v : v = request'[q].user
    OBVIOUS
  <2>2. HasAccount(v)
    BY <1>1, <1>9, <2>1 DEF DeviceInv, Known
  <2>3. QED
    BY <1>7, <2>1, <2>2
<1>10. Known'
  BY <1>8, <1>9 DEF Known
<1>11. \A q \in Proc : Matches(q)'
  BY <1>1 DEF DeviceInv, Matches
<1>12. QED
  BY <1>6, <1>10, <1>11 DEF DeviceInv

\* Whoever ends its request asks for nothing.
LEMMA EndsOnDevice ==
  ASSUME Base, DeviceInv, NEW p \in Proc, NEW from, End(p, from), UNCHANGED row,
         live' \subseteq live, raced \subseteq raced'
  PROVE  DeviceInv'
<1>1. \A q \in Proc : request'[q] = request[q] \/ request'[q] = Free
  BY DEF End, Base, TypeOK
<1>2. QED
  BY <1>1, FewerOnDevices DEF Free

LEMMA ContinuesOnDevice ==
  ASSUME Base, DeviceInv, NEW p \in Proc, NEW to \in {"used", "set"},
         Continue(p, "checked", to), UNCHANGED row,
         live' \subseteq live, raced \subseteq raced'
  PROVE  DeviceInv'
<1>1. request[p] \in Handling /\ request' = [request EXCEPT ![p].pc = to]
  BY DEF Continue, Base, TypeOK, Free
<1>2. /\ request'[p].pc = to /\ request'[p].user = request[p].user
      /\ \A q \in Proc \ {p} : request'[q] = request[q]
  BY <1>1 DEF Base, TypeOK, Handling
<1>3. HasAccount(request'[p].user)
  BY <1>2 DEF Continue, DeviceInv, Known
<1>4. QED
  BY <1>2, <1>3, FewerOnDevices

LEMMA BeginsOnDevice ==
  ASSUME Base, DeviceInv, NEW p \in Proc, NEW pc \in {"found", "replace", "checked"},
         NEW u, NEW d, NEW t \in live, Begin(p, pc, u, d, t),
         row[t].user = u, pc # "checked" => row[t].type \in Reset \/ row[t].device = d,
         UNCHANGED <<row, live, raced>>
  PROVE  DeviceInv'
<1>1. /\ request'[p] = [pc |-> pc, user |-> u, device |-> d, token |-> t]
      /\ \A q \in Proc \ {p} : request'[q] = request[q]
  BY DEF Begin, Base, TypeOK
<1>2. HasAccount(u)
  BY DEF Base, TypeOK, Drawn, DeviceInv, Known
<1>3. request'[p].pc = pc /\ request'[p].user = u /\ request'[p].device = d /\ request'[p].token = t
  BY <1>1
<1>4. QED
  BY <1>1, <1>2, <1>3, FewerOnDevices

LEMMA RowsOfNobody ==
  ASSUME Base, DeviceInv, NEW u, ~ HasAccount(u), NEW d
  PROVE  /\ \A s \in Token : ~ OnIt(s, u, d)
         /\ \A p \in Proc : ~ AsksFor(p, u, d)
BY DEF Base, Drawn, DeviceInv, Known, OnIt, AsksFor

\* A request that saves the row it asked for, or makes a session of a reset token.
LEMMA SavesOnDevice ==
  ASSUME Base, DeviceInv, NEW p \in Proc, NEW from \in {"renew", "login"}, End(p, from),
         NEW t \in Token, NEW f \in Token,
         Generate(t, "refresh", request[p].user, request[p].device, f), UNCHANGED raced,
         from = "renew" => f = row[request[p].token].family
  PROVE  DeviceInv'
<1>1. request[p] \in Handling /\ request[p].pc = from
  BY DEF End, Base, TypeOK, Free
<1>2. PICK u \in User, d \in Device \cup {Null} : u = request[p].user /\ d = request[p].device
  BY <1>1 DEF Handling
<1>3. HasAccount(u)
  BY <1>1, <1>2 DEF DeviceInv, Known
<1>4. request'[p] = Free /\ \A q \in Proc \ {p} : request'[q] = request[q]
  BY DEF End, Base, TypeOK
<1>5. /\ \A s \in Token : Issued(s) => row'[s] = row[s]
      /\ row'[t].type = "refresh" /\ row'[t].family = f
  BY DEF Generate, Base, TypeOK
<1>6. ASSUME Steady'
      PROVE  AsksFor(p, u, d)
  <2>1. CASE from = "login"
    BY <1>1, <1>2, <2>1 DEF AsksFor
  <2>2. CASE from = "renew" /\ row[request[p].token].type = "refresh"
    BY <1>1, <1>2, <2>2 DEF AsksFor
  <2>3. CASE from = "renew" /\ row[request[p].token].type # "refresh"
    <3>1. f = request[p].token /\ row[f].type \in Reset /\ Issued(f)
      BY <1>1, <2>3, FamilyHeld
    <3>2. Opened(f)' /\ row'[f].type \in Reset
      BY <1>5, <3>1 DEF Opened
    <3>3. QED
      BY <1>6, <3>2 DEF Steady
  <2>4. QED
    BY <2>1, <2>2, <2>3
<1>7. ASSUME Steady, Steady', d \in Device
      PROVE  /\ \A s \in Token : ~ OnIt(s, u, d)
             /\ \A q \in Proc : ~ AsksFor(q, u, d)'
  <2>1. AsksFor(p, u, d) /\ \A s \in Token : ~ OnIt(s, u, d)
    BY <1>6, <1>7 DEF DeviceInv, OneEach
  <2>2. \A q \in Proc : AsksFor(q, u, d)' => AsksFor(q, u, d) /\ q # p
    <3> SUFFICES ASSUME NEW q \in Proc, AsksFor(q, u, d)'
                 PROVE  AsksFor(q, u, d) /\ q # p
      OBVIOUS
    <3>1. q # p /\ request'[q] = request[q]
      BY <1>4 DEF AsksFor, Free
    <3>2. request[q].pc = "renew" => row'[request[q].token] = row[request[q].token]
      BY <1>5, TokenDrawn
    <3>3. QED
      BY <3>1, <3>2 DEF AsksFor
  <2>3. QED
    BY <1>7, <2>1, <2>2 DEF DeviceInv, OneEach
<1>8. Generate(t, "refresh", u, d, f)
  BY <1>2
<1>9. \A q \in Proc : request'[q] = request[q] \/ request'[q].pc = "free"
  BY <1>4 DEF Free
<1>10. QED
  BY <1>3, <1>7, <1>8, <1>9, RowOnDevice

LEMMA DeletedRow ==
  ASSUME NEW t, DeleteByToken(t)
  PROVE  live' \subseteq live /\ raced \subseteq raced'
BY DEF DeleteByToken, Missed

LEMMA DeviceStep ==
  ASSUME SessionsAssumption, "roaming" \notin Hazard, "parallel_login" \notin Hazard,
         Base, DeviceInv, Next
  PROVE  DeviceInv'
<1>1. ASSUME NEW t \in Token, NEW u \in User, NEW d \in Device, CreateAccount(t, u, d)
      PROVE  DeviceInv'
  <2>1. /\ \A s \in Token : ~ OnIt(s, u, d)
        /\ \A p \in Proc : ~ AsksFor(p, u, d)
    BY <1>1, RowsOfNobody DEF CreateAccount
  <2>2. \A p \in Proc : ~ AsksFor(p, u, d)'
    <3> SUFFICES ASSUME NEW p \in Proc, AsksFor(p, u, d)'
                 PROVE  AsksFor(p, u, d)
      BY <2>1
    <3>1. request' = request /\ \A s \in Token : Issued(s) => row'[s] = row[s]
      BY <1>1 DEF CreateAccount, Generate, Base, TypeOK
    <3>2. request[p].pc = "renew" => row'[request[p].token] = row[request[p].token]
      BY <3>1, TokenDrawn
    <3>3. QED
      BY <3>1, <3>2 DEF AsksFor
  <2>3. QED
    BY <1>1, <2>1, <2>2, RowOnDevice DEF CreateAccount
<1>2. ASSUME NEW t \in Token, NEW u \in User, NEW type \in Reset, ConfirmCode(t, u, type)
      PROVE  DeviceInv'
  <2>1. Null \notin Device
    BY SessionsAssumption
  <2>2. QED
    BY <1>2, <2>1, RowOnDevice DEF ConfirmCode
<1>3. ASSUME NEW p \in Proc, NEW d \in Device, NEW t \in Token, RefreshFind(p, t, d)
      PROVE  DeviceInv'
  BY <1>3, BeginsOnDevice DEF RefreshFind
<1>4. ASSUME NEW p \in Proc, NEW d \in Device, NEW u \in User, LoginFind(p, u, d)
      PROVE  DeviceInv'
  <2>1. HasAccount(u) /\ Active(u) = {} /\ UNCHANGED <<row, live, raced>>
    BY <1>4 DEF LoginFind, MayLogin
  <2>2. ASSUME NEW t \in OnDevice(u, d), Begin(p, "replace", u, d, t)
        PROVE  DeviceInv'
    BY <2>1, <2>2, BeginsOnDevice DEF OnDevice
  <2>3. ASSUME OnDevice(u, d) = {}, Begin(p, "login", u, d, Null)
        PROVE  DeviceInv'
    BY <2>1, <2>3, LoginAsks
  <2>4. QED
    BY <1>4, <2>2, <2>3 DEF LoginFind
<1>5. ASSUME NEW p \in Proc, NEW t \in Token, ResetCheck(p, t)
      PROVE  DeviceInv'
  BY <1>5, BeginsOnDevice DEF ResetCheck
<1>6. ASSUME NEW t \in Token, Logout(t)
      PROVE  DeviceInv'
  BY <1>6, DeletedRow, FewerOnDevices DEF Logout
<1>7. ASSUME NEW p \in Proc, RefreshStep(p)
      PROVE  DeviceInv'
  <2>1. CASE RefreshDelete(p)
    BY <2>1, HandedOver DEF RefreshDelete
  <2>2. ASSUME NEW t \in Token, RefreshRenew(p, t)
        PROVE  DeviceInv'
    <3>1. row[request[p].token].family \in Token
      BY <2>2, TokenDrawn DEF RefreshRenew, End
    <3>2. QED
      BY <2>2, <3>1, SavesOnDevice DEF RefreshRenew
  <2>3. QED
    BY <1>7, <2>1, <2>2 DEF RefreshStep
<1>8. ASSUME NEW p \in Proc, LoginStep(p)
      PROVE  DeviceInv'
  <2>1. CASE LoginReplace(p)
    BY <2>1, HandedOver DEF LoginReplace
  <2>2. ASSUME NEW t \in Token, LoginIssue(p, t)
        PROVE  DeviceInv'
    BY <2>2, SavesOnDevice DEF LoginIssue
  <2>3. QED
    BY <1>8, <2>1, <2>2 DEF LoginStep
<1>9. ASSUME NEW p \in Proc, ResetStep(p)
      PROVE  DeviceInv'
  <2>1. CASE PasswordDelete(p)
    BY <2>1, DeletedRow, ContinuesOnDevice DEF PasswordDelete
  <2>2. CASE PasswordSet(p)
    BY <2>2, EndsOnDevice DEF PasswordSet
  <2>3. CASE PincodeSet(p)
    BY <2>3, ContinuesOnDevice DEF PincodeSet
  <2>4. CASE PincodeDelete(p)
    BY <2>4, DeletedRow, EndsOnDevice DEF PincodeDelete
  <2>5. QED
    BY <1>9, <2>1, <2>2, <2>3, <2>4 DEF ResetStep
<1>10. ASSUME ApiCrash
       PROVE  DeviceInv'
  <2>1. \A p \in Proc : request'[p] = Free
    BY <1>10 DEF ApiCrash
  <2>2. QED
    BY <1>10, <2>1, FewerOnDevices DEF ApiCrash, Free
<1>11. QED
  BY <1>1, <1>2, <1>3, <1>4, <1>5, <1>6, <1>7, <1>8, <1>9, <1>10 DEF Next

(***************************************************************************)
(* A user whose sessions stay on their devices, and who does not log in    *)
(* while another request of theirs is under way, has one row per device,   *)
(* whatever refreshes and resets overlap and wherever the process dies, as *)
(* long as no delete found its row gone and no reset token was refreshed   *)
(* (oldRefreshToken of loginByPassword).                                   *)
(***************************************************************************)
THEOREM OneRowPerDevice ==
  ASSUME "roaming" \notin Hazard, "parallel_login" \notin Hazard
  PROVE  Spec => []OneSessionPerDevice
<1>1. Init => DeviceInv
  BY DEF Init, DeviceInv, OneEach, OnIt, Known, Issued, Matches, Free, AsksFor
<1>2. SessionsInv /\ DeviceInv /\ [Next]_vars => DeviceInv'
  <2> SUFFICES ASSUME SessionsInv, DeviceInv, [Next]_vars
               PROVE  DeviceInv'
    OBVIOUS
  <2>1. CASE Next
    <3>1. Base
      BY DEF SessionsInv, Base
    <3>2. QED
      BY <2>1, <3>1, DeviceStep, SessionsAssumption
  <2>2. CASE UNCHANGED vars
    BY <2>2, FewerOnDevices DEF vars
  <2>3. QED
    BY <2>1, <2>2
<1>3. SessionsInv /\ DeviceInv => OneSessionPerDevice
  <2> SUFFICES ASSUME SessionsInv, DeviceInv, raced = {}, Refreshed = {},
                      NEW u \in User, NEW d \in Device
               PROVE  AtMostOne({<<"row", t>> : t \in OnDevice(u, d)} \cup
                                {<<"request", p>> :
                                   p \in {q \in Active(u) : /\ request[q].device = d
                                                            /\ request[q].pc \in {"renew", "login"}}})
    BY DEF OneSessionPerDevice
  <2> DEFINE Rows == {<<"row", t>> : t \in OnDevice(u, d)}
             Asks == {<<"request", p>> :
                        p \in {q \in Active(u) : /\ request[q].device = d
                                                 /\ request[q].pc \in {"renew", "login"}}}
  <2>1. \A x \in Rows : \E t \in Token : x = <<"row", t>> /\ OnIt(t, u, d)
    BY DEF OnDevice, OnIt, SessionsInv, TypeOK
  <2>2. Steady /\ Base
    BY SessionOpened DEF Steady, Refreshed, SessionsInv, Base
  <2>3. \A x \in Asks : \E p \in Proc : x = <<"request", p>> /\ AsksFor(p, u, d)
    <3>1. \A p \in Proc : request[p].pc = "renew" => row[request[p].token].type = "refresh"
      BY <2>2, FamilyHeld DEF Refreshed, TokensAt
    <3>2. QED
      BY <3>1 DEF Active, AsksFor
  <2>4. \A x, y \in Rows \cup Asks : x = y
    <3> HIDE DEF Rows, Asks
    <3>1. \A x \in Rows, y \in Asks : FALSE
      BY <2>1, <2>3, <2>2 DEF DeviceInv, OneEach
    <3>2. \A x, y \in Rows : x = y
      BY <2>1, <2>2 DEF DeviceInv, OneEach
    <3>3. \A x, y \in Asks : x = y
      BY <2>3, <2>2 DEF DeviceInv, OneEach
    <3>4. QED
      BY <3>1, <3>2, <3>3
  <2>5. QED
    BY <2>4 DEF AtMostOne
<1>4. QED
  BY <1>1, <1>2, <1>3, SessionsInvariant, PTL DEF Spec
=============================================================================
