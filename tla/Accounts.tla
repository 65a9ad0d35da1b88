------------------------------ MODULE Accounts ------------------------------
(***************************************************************************)
(* A completed account until it is closed: its PIN (setPinCode,            *)
(* resetPinCode), the access tokens that a PIN or a refresh gives          *)
(* (verifyPinCode, refreshTokens, createAccessToken), the guard that lets  *)
(* a request pass on what such a token says (JwtStrategy), and             *)
(* closeAccount.  An access token carries the status its user had when it  *)
(* was read, nobody revokes it, and it lives until it expires; the refresh *)
(* token behind it is that of Sessions and outlives the account.           *)
(***************************************************************************)
EXTENDS FiniteSets

CONSTANTS
  Client,       \* the users
  Job,          \* concurrent requests
  Jwt,          \* access tokens alive at a time
  Pin,
  NoPin,        \* pincodeSet is false
  NoClient,
  JwtCarriesId  \* whether the guard tells closeAccount who the user is

ASSUME AccountsAssumption ==
  NoPin \notin Pin /\ NoClient \notin Client /\ JwtCarriesId \in BOOLEAN

VARIABLES
  status,   \* status of each user's row
  pin,      \* PIN of each user's row
  job,      \* progress of each request
  jwt,      \* the access tokens that have not expired
  told,     \* PINs whose setting was acknowledged since the last reset
  crossed   \* users of whom settings of a PIN overlapped

accountVars == <<status, pin, job, jwt, told, crossed>>

NoJob == [pc |-> "free", client |-> NoClient, pin |-> NoPin, status |-> "none"]
NoJwt == [client |-> NoClient, status |-> "none"]

Statuses == {"COMPLETED", "CLOSED"}

AccountsTypeOK ==
  /\ status \in [Client -> Statuses]
  /\ pin \in [Client -> Pin \cup {NoPin}]
  /\ job \in [Job -> [pc : {"free", "setting", "signing", "closing", "reasons"},
                      client : Client \cup {NoClient}, pin : Pin \cup {NoPin},
                      status : Statuses \cup {"none"}]]
  /\ jwt \in [Jwt -> [client : Client \cup {NoClient}, status : Statuses \cup {"none"}]]
  /\ told \in [Client -> SUBSET Pin]
  /\ crossed \subseteq Client

AccountsInit ==
  /\ status = [u \in Client |-> "COMPLETED"]
  /\ pin = [u \in Client |-> NoPin]
  /\ job = [p \in Job |-> NoJob]
  /\ jwt = [j \in Jwt |-> NoJwt]
  /\ told = [u \in Client |-> {}]
  /\ crossed = {}

Begins(p, pc, u) ==
  /\ job[p].pc = "free"
  /\ job' = [job EXCEPT ![p] = [NoJob EXCEPT !.pc = pc, !.client = u,
                                             !.status = status[u]]]

Ends(p) == job' = [job EXCEPT ![p] = NoJob]

-----------------------------------------------------------------------------
(* The PIN.                                                                *)

Setting(u) == \E p \in Job : job[p].pc = "setting" /\ job[p].client = u

Crossing(u) == crossed' = IF Setting(u) THEN crossed \cup {u} ELSE crossed

\* Mutant: a PIN that is set is set again.
SetPinAgain(p, u, n) ==
  /\ job[p].pc = "free"
  /\ job' = [job EXCEPT ![p] = [pc |-> "setting", client |-> u, pin |-> n,
                                status |-> status[u]]]
  /\ Crossing(u)
  /\ UNCHANGED <<status, pin, jwt, told>>

\* setPinCode reads pincodeSet; the PIN is hashed ...
SetPin(p, u, n) ==
  /\ job[p].pc = "free" /\ pin[u] = NoPin
  /\ job' = [job EXCEPT ![p] = [pc |-> "setting", client |-> u, pin |-> n,
                                status |-> status[u]]]
  /\ Crossing(u)
  /\ UNCHANGED <<status, pin, jwt, told>>

\* ... and saved: isSet.
SavePin(p) ==
  LET u == job[p].client IN
  /\ job[p].pc = "setting"
  /\ pin' = [pin EXCEPT ![u] = job[p].pin]
  /\ told' = [told EXCEPT ![u] = @ \cup {job[p].pin}]
  /\ Ends(p)
  /\ UNCHANGED <<status, jwt, crossed>>

\* resetPinCode, with a token of Sessions.
ResetPin(u, n) ==
  /\ pin' = [pin EXCEPT ![u] = n]
  /\ told' = [told EXCEPT ![u] = {n}]
  /\ Crossing(u)
  /\ UNCHANGED <<status, job, jwt>>

-----------------------------------------------------------------------------
(* Access tokens.                                                          *)

\* validateUserByPincode reads the row; a wrong PIN, or none, throws.
VerifyPin(p, u, n) ==
  /\ pin[u] = n /\ Begins(p, "signing", u)
  /\ UNCHANGED <<status, pin, jwt, told, crossed>>

\* refreshTokens reads it too, and asks for nothing else.
Refresh(p, u) ==
  /\ Begins(p, "signing", u)
  /\ UNCHANGED <<status, pin, jwt, told, crossed>>

\* Mutant: the payload says what a user must be.
CreateAccessTokenFor(p, j) ==
  /\ job[p].pc = "signing" /\ jwt[j] = NoJwt
  /\ jwt' = [jwt EXCEPT ![j] = [client |-> job[p].client, status |-> "COMPLETED"]]
  /\ Ends(p)
  /\ UNCHANGED <<status, pin, told, crossed>>

\* The payload says what the row said.
CreateAccessToken(p, j) ==
  /\ job[p].pc = "signing" /\ jwt[j] = NoJwt
  /\ jwt' = [jwt EXCEPT ![j] = [client |-> job[p].client, status |-> job[p].status]]
  /\ Ends(p)
  /\ UNCHANGED <<status, pin, told, crossed>>

Expire(j) ==
  /\ jwt[j] # NoJwt
  /\ jwt' = [jwt EXCEPT ![j] = NoJwt]
  /\ UNCHANGED <<status, pin, job, told, crossed>>

\* JwtStrategy.validate.
Passes(u) == \E j \in Jwt : jwt[j] = [client |-> u, status |-> "COMPLETED"]

-----------------------------------------------------------------------------
(* Closing.                                                                *)

\* The row is read and the password compared.
CloseAccount(p, u) ==
  /\ Passes(u) /\ Begins(p, "closing", u)
  /\ UNCHANGED <<status, pin, jwt, told, crossed>>

\* Without an id the update has no criteria and throws.
CloseStatus(p) ==
  /\ job[p].pc = "closing" /\ JwtCarriesId
  /\ status' = [status EXCEPT ![job[p].client] = "CLOSED"]
  /\ job' = [job EXCEPT ![p].pc = "reasons"]
  /\ UNCHANGED <<pin, jwt, told, crossed>>

\* The reasons are saved and the request answered; or it is answered with an
\* error, or its process dies, at any point.
JobEnds(p) ==
  /\ job[p].pc # "free"
  /\ Ends(p)
  /\ UNCHANGED <<status, pin, jwt, told, crossed>>

-----------------------------------------------------------------------------
AccountsNext ==
  \/ \E p \in Job, u \in Client :
       \/ \E n \in Pin : SetPin(p, u, n) \/ VerifyPin(p, u, n)
       \/ Refresh(p, u) \/ CloseAccount(p, u)
  \/ \E p \in Job :
       \/ SavePin(p) \/ CloseStatus(p) \/ JobEnds(p)
       \/ \E j \in Jwt : CreateAccessToken(p, j)
  \/ \E u \in Client, n \in Pin : ResetPin(u, n)
  \/ \E j \in Jwt : Expire(j)

AccountsSpec == AccountsInit /\ [][AccountsNext]_accountVars

(***************************************************************************)
(* A token expires accessTokenDurationMinutes after it was signed.         *)
(***************************************************************************)
AccountsFairness == \A j \in Jwt : WF_accountVars(Expire(j))

-----------------------------------------------------------------------------
(***************************************************************************)
(* A closed account gets out of the application and stays out: after the   *)
(* last token that was signed from a row read before the close, none       *)
(* passes the guard, however often its sessions are refreshed and its PIN  *)
(* verified or reset.                                                      *)
(***************************************************************************)
ClosedStaysOut ==
  \A u \in Client : status[u] = "CLOSED" ~> [](~ Passes(u))

(***************************************************************************)
(* "Pincode is already set": who was told that a PIN is set has that PIN,  *)
(* unless a second setting or a reset came between the check and the save. *)
(***************************************************************************)
PinIsKept ==
  /\ AccountsTypeOK
  /\ \A u \in Client \ crossed : told[u] \subseteq {pin[u]}
=============================================================================
