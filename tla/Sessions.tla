------------------------------ MODULE Sessions ------------------------------
(***************************************************************************)
(* The one-time tokens of the table cipher_token: the refresh token that   *)
(* stands for a session of a user on a device, and the tokens that reset a *)
(* password or a PIN.  Each is looked up, used and deleted with an await   *)
(* in between, and deleteByToken tells whether it deleted a row; nobody    *)
(* asks.                                                                   *)
(*                                                                         *)
(* A token that expires is no longer found by the checks below, so expiry  *)
(* is that nobody uses it any more.  A refresh and a logout take a token   *)
(* by its text, of whatever type.                                          *)
(***************************************************************************)
EXTENDS FiniteSets

CONSTANTS
  User,
  Device,   \* user agent and address a request comes from
  Token,    \* the random tokens
  Proc,     \* concurrent requests
  Null,     \* no user, no device, no token
  Hazard    \* what the environment may do, a subset of AllHazards

AllHazards ==
  { "crash",          \* the api process dies
    "parallel_use",   \* requests of a user overlap
    "parallel_login", \* a login overlaps another request of the user
    "roaming" }       \* a session is refreshed from another device

ASSUME SessionsAssumption ==
  /\ Null \notin User \cup Device \cup Token
  /\ Hazard \subseteq AllHazards

VARIABLES
  row,      \* what was saved with each token
  live,     \* the tokens whose row is in the table
  request,  \* progress of each request
  ended,    \* sessions that were logged out or replaced by a login
  raced,    \* sessions and reset tokens a delete found gone, or a death left
  lost,     \* those a death took between the delete and what follows it
  applied,  \* reset tokens a password or PIN was set with
  again     \* ... and set with more than once

vars == <<row, live, request, ended, raced, lost, applied, again>>

Reset == {"password", "pincode"}

Row == [type : {"create", "refresh"} \cup Reset, user : User,
        device : Device \cup {Null}, family : Token]

Blank == [type |-> "none", user |-> Null, device |-> Null, family |-> Null]

Free == [pc |-> "free", user |-> Null, device |-> Null, token |-> Null]

Handling == [pc : {"found", "renew", "replace", "login", "checked", "used", "set"},
             user : User, device : Device \cup {Null}, token : Token \cup {Null}]

TypeOK ==
  /\ row \in [Token -> {Blank} \cup Row]
  /\ live \subseteq Token
  /\ request \in [Proc -> {Free} \cup Handling]
  /\ ended \subseteq Token
  /\ raced \subseteq Token
  /\ lost \subseteq Token
  /\ applied \subseteq Token
  /\ again \subseteq applied

Init ==
  /\ row = [t \in Token |-> Blank]
  /\ live = {}
  /\ request = [p \in Proc |-> Free]
  /\ ended = {} /\ raced = {} /\ lost = {} /\ applied = {} /\ again = {}

-----------------------------------------------------------------------------
(* The table.                                                              *)

Issued(t) == row[t] # Blank

\* Mutant: the token is saved without what it belongs to.
GenerateOrphan(t, type, u, d, f) ==
  /\ ~ Issued(t)
  /\ row' = [row EXCEPT ![t] = [type |-> type, user |-> Null, device |-> d,
                                family |-> f]]
  /\ live' = live \cup {t}

\* generateToken: the session goes on in a new token of the same family.
Generate(t, type, u, d, f) ==
  /\ ~ Issued(t)
  /\ row' = [row EXCEPT ![t] = [type |-> type, user |-> u, device |-> d,
                                family |-> f]]
  /\ live' = live \cup {t}

\* A delete that finds no row: its result is dropped by all its callers.
Missed(t) == raced' = IF t \in live THEN raced ELSE raced \cup {row[t].family}

\* Mutant: every token of the user is deleted.
DeleteAll(t) ==
  /\ live' = {s \in live : row[s].user # row[t].user}
  /\ Missed(t)

DeleteByToken(t) == live' = live \ {t} /\ Missed(t)

-----------------------------------------------------------------------------
(* Requests.                                                               *)

Active(u) == {p \in Proc : request[p].pc # "free" /\ request[p].user = u}

LoggingIn(u) == {p \in Active(u) : request[p].pc \in {"replace", "login"}}

MayUse(u) == /\ "parallel_use" \in Hazard \/ Active(u) = {}
             /\ "parallel_login" \in Hazard \/ LoggingIn(u) = {}

MayLogin(u) == "parallel_login" \in Hazard \/ Active(u) = {}

Begin(p, pc, u, d, t) ==
  /\ request[p].pc = "free"
  /\ request' = [request EXCEPT ![p] = [pc |-> pc, user |-> u, device |-> d,
                                        token |-> t]]

Continue(p, from, to) ==
  /\ request[p].pc = from
  /\ request' = [request EXCEPT ![p].pc = to]

End(p, from) ==
  /\ request[p].pc = from
  /\ request' = [request EXCEPT ![p] = Free]

HasAccount(u) == \E t \in Token : row[t].type = "create" /\ row[t].user = u

\* createAccount: the user was inserted just before.
CreateAccount(t, u, d) ==
  /\ ~ HasAccount(u)
  /\ Generate(t, "create", u, d, t)
  /\ UNCHANGED <<request, ended, raced, lost, applied, again>>

-----------------------------------------------------------------------------
(* refreshTokens.                                                          *)

\* A token to create an account never expires, and RefreshTokenValidator turns
\* away what has no expiry.  A reset token belongs to no device.
RefreshFind(p, t, d) ==
  /\ t \in live /\ row[t].type # "create" /\ MayUse(row[t].user)
  /\ "roaming" \in Hazard \/ row[t].type \in Reset \/ row[t].device = d
  /\ Begin(p, "found", row[t].user, d, t)
  /\ UNCHANGED <<row, live, ended, raced, lost, applied, again>>

\* Mutant: the old token is left in the table.
RefreshKeep(p) ==
  /\ Continue(p, "found", "renew")
  /\ UNCHANGED <<row, live, ended, raced, lost, applied, again>>

RefreshDelete(p) ==
  /\ Continue(p, "found", "renew")
  /\ DeleteByToken(request[p].token)
  /\ UNCHANGED <<row, ended, lost, applied, again>>

RefreshRenew(p, t) ==
  /\ End(p, "renew")
  /\ Generate(t, "refresh", request[p].user, request[p].device,
              row[request[p].token].family)
  /\ UNCHANGED <<ended, raced, lost, applied, again>>

-----------------------------------------------------------------------------
(* loginByPassword of a completed account.                                 *)

OnDevice(u, d) == {t \in live : row[t].user = u /\ row[t].device = d}

\* Mutant: the old token is looked up by user only.
LoginFindAny(p, u, d) ==
  /\ HasAccount(u) /\ MayLogin(u)
  /\ \/ \E t \in live : row[t].user = u /\ Begin(p, "replace", u, d, t)
     \/ ~ (\E t \in live : row[t].user = u) /\ Begin(p, "login", u, d, Null)
  /\ UNCHANGED <<row, live, ended, raced, lost, applied, again>>

\* findOneBy takes any one row of the user and device, of whatever type.
LoginFind(p, u, d) ==
  /\ HasAccount(u) /\ MayLogin(u)
  /\ \/ \E t \in OnDevice(u, d) : Begin(p, "replace", u, d, t)
     \/ OnDevice(u, d) = {} /\ Begin(p, "login", u, d, Null)
  /\ UNCHANGED <<row, live, ended, raced, lost, applied, again>>

LoginReplace(p) ==
  /\ Continue(p, "replace", "login")
  /\ DeleteByToken(request[p].token)
  /\ ended' = ended \cup {row[request[p].token].family}
  /\ UNCHANGED <<row, lost, applied, again>>

LoginIssue(p, t) ==
  /\ End(p, "login")
  /\ Generate(t, "refresh", request[p].user, request[p].device, t)
  /\ UNCHANGED <<ended, raced, lost, applied, again>>

\* The cookie of a logout may be older than the last refresh, or no session's.
Logout(t) ==
  /\ Issued(t) /\ MayUse(row[t].user)
  /\ DeleteByToken(t)
  /\ ended' = ended \cup {row[t].family}
  /\ UNCHANGED <<row, request, lost, applied, again>>

-----------------------------------------------------------------------------
(* password-reset and reset-pin-code.                                      *)

\* A confirmed code; that of a PIN is confirmed by a logged in user.
ConfirmCode(t, u, type) ==
  /\ HasAccount(u) /\ MayUse(u)
  /\ type = "pincode" =>
       \E s \in live : row[s].type = "refresh" /\ row[s].user = u
  /\ Generate(t, type, u, Null, t)
  /\ UNCHANGED <<request, ended, raced, lost, applied, again>>

\* checkIfValid.
ResetCheck(p, t) ==
  /\ t \in live /\ row[t].type \in Reset /\ MayUse(row[t].user)
  /\ Begin(p, "checked", row[t].user, Null, t)
  /\ UNCHANGED <<row, live, ended, raced, lost, applied, again>>

\* The user's password or PIN becomes the one of the request.
Apply(t) == /\ applied' = applied \cup {t}
            /\ again' = IF t \in applied THEN again \cup {t} ELSE again

\* passwordReset deletes the token, then sets the password.
PasswordDelete(p) ==
  /\ Continue(p, "checked", "used")
  /\ row[request[p].token].type = "password"
  /\ DeleteByToken(request[p].token)
  /\ UNCHANGED <<row, ended, lost, applied, again>>

PasswordSet(p) ==
  /\ End(p, "used")
  /\ Apply(request[p].token)
  /\ UNCHANGED <<row, live, ended, raced, lost>>

\* Mutant: the token is deleted before the PIN is set.
PincodeDeleteFirst(p) ==
  /\ Continue(p, "checked", "used")
  /\ row[request[p].token].type = "pincode"
  /\ DeleteByToken(request[p].token)
  /\ UNCHANGED <<row, ended, lost, applied, again>>

\* resetPinCode sets the PIN, then deletes the token.
PincodeSet(p) ==
  /\ Continue(p, "checked", "set")
  /\ row[request[p].token].type = "pincode"
  /\ Apply(request[p].token)
  /\ UNCHANGED <<row, live, ended, raced, lost>>

\* Mutant: the token is not deleted.
PincodeKeep(p) ==
  /\ End(p, "set")
  /\ UNCHANGED <<row, live, ended, raced, lost, applied, again>>

PincodeDelete(p) ==
  /\ End(p, "set")
  /\ DeleteByToken(request[p].token)
  /\ UNCHANGED <<row, ended, lost, applied, again>>

-----------------------------------------------------------------------------
TokensAt(pc) == {request[p].token : p \in {q \in Proc : request[q].pc = pc}}

ApiCrash ==
  /\ "crash" \in Hazard
  /\ request' = [p \in Proc |-> Free]
  /\ raced' = raced \cup TokensAt("set")
  /\ lost' = lost \cup TokensAt("used") \cup {row[t].family : t \in TokensAt("renew")}
  /\ UNCHANGED <<row, live, ended, applied, again>>

RefreshStep(p) == RefreshDelete(p) \/ \E t \in Token : RefreshRenew(p, t)
LoginStep(p)   == LoginReplace(p) \/ \E t \in Token : LoginIssue(p, t)
ResetStep(p)   == \/ PasswordDelete(p) \/ PasswordSet(p)
                  \/ PincodeSet(p) \/ PincodeDelete(p)

Next ==
  \/ \E t \in Token, u \in User :
       \/ \E d \in Device : CreateAccount(t, u, d)
       \/ \E type \in Reset : ConfirmCode(t, u, type)
  \/ \E p \in Proc, d \in Device :
       \/ \E t \in Token : RefreshFind(p, t, d)
       \/ \E u \in User : LoginFind(p, u, d)
  \/ \E p \in Proc, t \in Token : ResetCheck(p, t)
  \/ \E t \in Token : Logout(t)
  \/ \E p \in Proc : RefreshStep(p) \/ LoginStep(p) \/ ResetStep(p)
  \/ ApiCrash

Spec == Init /\ [][Next]_vars

-----------------------------------------------------------------------------
(* Properties.                                                             *)

AtMostOne(S) == \A x, y \in S : x = y

\* A session is known by the token of its login, or by the reset token that
\* was refreshed in its place.
Session == {row[s].family : s \in {t \in Token : row[t].type = "refresh"}}

\* What carries a session on: a row, or a refresh about to save one.
Holders(f) ==
  {<<"row", t>> : t \in {s \in live : row[s].type = "refresh" /\ row[s].family = f}}
    \cup {<<"request", p>> :
            p \in {q \in Proc : /\ request[q].pc = "renew"
                                /\ row[request[q].token].family = f}}

(***************************************************************************)
(* A session is one: however its refreshes, logouts and logins overlap, it *)
(* splits in two or outlives its logout only if some delete found no row.  *)
(* So the result of deleteByToken is all the code needs to see it.         *)
(***************************************************************************)
SessionsAreOne ==
  \A f \in Session \ raced :
    AtMostOne(Holders(f)) /\ (f \in ended => Holders(f) = {})

(***************************************************************************)
(* A session is not lost: until a logout or a login on its device ends it, *)
(* it goes on, unless the process dies in the middle of a refresh.         *)
(***************************************************************************)
SessionsAreKept == \A f \in Session \ (ended \cup lost) : Holders(f) # {}

(***************************************************************************)
(* A reset token that is gone has done its work, or a logout or a refresh  *)
(* has taken it; for a password the process may also have died after the   *)
(* delete, for a PIN it may die anywhere.                                  *)
(***************************************************************************)
Taken == ended \cup Session \cup TokensAt("renew")

ResetsAreKept ==
  \A t \in Token \ (live \cup applied \cup Taken) :
    /\ row[t].type = "password" => t \in lost \cup TokensAt("used")
    /\ row[t].type = "pincode" => t \in lost

(***************************************************************************)
(* A reset token works once: when no request is using it, a second reset   *)
(* with it, or a session opened with it besides the reset, shows in a      *)
(* delete that found no row or a death before it.                          *)
(***************************************************************************)
ResetsAreOnce ==
  \A t \in (again \cup (applied \cap Session)) \ raced :
    \E p \in Proc : request[p].token = t

(***************************************************************************)
(* "oldRefreshToken": a login on a device replaces the session there, so a *)
(* user has one row per device as long as no delete found its row gone and *)
(* no reset token was refreshed into a session.                            *)
(***************************************************************************)
Refreshed ==
  {t \in Session \cup TokensAt("renew") : row[t].type \in Reset}

OneSessionPerDevice ==
  raced = {} /\ Refreshed = {} => \A u \in User, d \in Device :
    AtMostOne({<<"row", t>> : t \in OnDevice(u, d)} \cup
              {<<"request", p>> :
                 p \in {q \in Active(u) : /\ request[q].device = d
                                          /\ request[q].pc \in {"renew", "login"}}})
=============================================================================
