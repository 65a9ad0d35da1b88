---------------------------- MODULE AccessTokens ----------------------------
(***************************************************************************)
(* The access tokens of the providers, cached in the table cipher_token:   *)
(* one of Triple-A per currency (TripleAService.getAccessToken) and one of *)
(* Sumsub per applicant (AuthService.getSumsubAccessToken).  A call looks  *)
(* for a row that has not expired and asks the provider for a token if     *)
(* there is none.  Lookup, request, save and use are separate awaits:      *)
(* calls overlap, time passes between them, and the expiry of a row counts *)
(* from the save while the provider's counts from the issue.               *)
(***************************************************************************)
EXTENDS Integers

CONSTANTS
  Currency,    \* keys of Triple-A's tokens
  Applicant,   \* keys of Sumsub's tokens
  Asker,       \* concurrent calls
  Bearer,      \* the tokens the providers may issue
  NoBearer,    \* the value undefined, sent as "Bearer undefined"
  NoKey,
  Lifetime,    \* expires_in
  Horizon      \* bound on the clock

Key == Currency \cup Applicant

ASSUME AccessAssumption ==
  /\ NoBearer \notin Bearer /\ NoKey \notin Key
  /\ Currency \cap Applicant = {}
  /\ Lifetime \in Nat \ {0} /\ Horizon \in Nat

VARIABLES
  clock,
  bearer,   \* what is known of each token: the provider's side and the row's
  call      \* progress of each call

accessVars == <<clock, bearer, call>>

Time == 0 .. Horizon

Unissued == [state |-> "unissued", key |-> NoKey,
             asked |-> 0, issued |-> 0, saved |-> 0]

NoCall == [pc |-> "idle", key |-> NoKey, bearer |-> NoBearer,
           since |-> 0, ended |-> 0]

AccessTypeOK ==
  /\ clock \in Time
  /\ bearer \in [Bearer ->
       {Unissued} \cup [state : {"issued", "stored"}, key : Key,
                        asked : Time, issued : Time, saved : Time]]
  /\ call \in [Asker ->
       {NoCall} \cup
       [pc : {"missed", "fetched", "holding", "prepared", "refused"}, key : Key,
        bearer : Bearer \cup {NoBearer}, since : Time, ended : Time]]

AccessInit ==
  /\ clock = 0
  /\ bearer = [b \in Bearer |-> Unissued]
  /\ call = [c \in Asker |-> NoCall]

-----------------------------------------------------------------------------
(* The table.                                                              *)

TokenRows(k) == {b \in Bearer : bearer[b].state = "stored" /\ bearer[b].key = k}

ExpireAt(b) == bearer[b].saved + Lifetime

\* Mutant: whatever row there is.
ValidRowsAny(k) == TokenRows(k)

\* findValidToken: the rows of a key that have not expired ...
ValidRows(k) == {b \in TokenRows(k) : ExpireAt(b) > clock}

\* ... of which it takes the youngest.
Youngest(S) == {b \in S : \A d \in S : bearer[d].saved <= bearer[b].saved}

-----------------------------------------------------------------------------
(* One call of a provider.                                                 *)

Lookup(c, k) ==
  /\ call[c].pc = "idle"
  /\ \/ \E b \in Youngest(ValidRows(k)) :
          call' = [call EXCEPT ![c] = [pc |-> "holding", key |-> k, bearer |-> b,
                                       since |-> clock, ended |-> 0]]
     \/ /\ ValidRows(k) = {}
        /\ call' = [call EXCEPT ![c] = [pc |-> "missed", key |-> k, bearer |-> NoBearer,
                                        since |-> clock, ended |-> 0]]
  /\ UNCHANGED <<clock, bearer>>

\* The provider issues a token.
Fetch(c, b) ==
  /\ call[c].pc = "missed" /\ bearer[b] = Unissued
  /\ bearer' = [bearer EXCEPT ![b] = [state |-> "issued", key |-> call[c].key,
                  asked |-> call[c].since, issued |-> clock, saved |-> clock]]
  /\ call' = [call EXCEPT ![c].pc = "fetched", ![c].bearer = b]
  /\ UNCHANGED clock

\* generateToken: expire_at is set from the clock of this save.
Save(c) ==
  /\ call[c].pc = "fetched"
  /\ bearer' = [bearer EXCEPT ![call[c].bearer].state = "stored",
                              ![call[c].bearer].saved = clock]
  /\ call' = [call EXCEPT ![c].pc = "holding", ![c].since = clock]
  /\ UNCHANGED clock

\* requestNewAccessToken logs any error, its save's too, and answers undefined,
\* with which the call goes on.
PaymentTokenFails(c) ==
  /\ call[c].pc \in {"missed", "fetched"} /\ call[c].key \in Currency
  /\ call' = [call EXCEPT ![c].pc = "holding", ![c].bearer = NoBearer]
  /\ UNCHANGED <<clock, bearer>>

\* createSumsubAccessToken throws, and so does the save.
ReviewTokenFails(c) ==
  /\ call[c].pc \in {"missed", "fetched"} /\ call[c].key \notin Currency
  /\ call' = [call EXCEPT ![c] = NoCall]
  /\ UNCHANGED <<clock, bearer>>

\* Triple-A answers 401 to a token it did not issue or that has expired.
Accepted(c) ==
  /\ call[c].bearer # NoBearer
  /\ clock < bearer[call[c].bearer].issued + Lifetime

\* An error answers the call.
Refused(c) == call' = [call EXCEPT ![c].pc = "refused", ![c].ended = clock]

\* The call is answered, or the process dies at any point of it.
Hangup(c) ==
  /\ call[c] # NoCall
  /\ call' = [call EXCEPT ![c] = NoCall]
  /\ UNCHANGED <<clock, bearer>>

\* deposit, getWithdrawalDetails: one request.  A Sumsub token is returned.
UseRefused(c) ==
  /\ call[c].pc = "holding" /\ call[c].key \in Currency /\ ~ Accepted(c)
  /\ Refused(c)
  /\ UNCHANGED <<clock, bearer>>

\* withdraw: the payout is prepared, then confirmed with the same token.
PreparePayout(c) ==
  /\ call[c].pc = "holding" /\ call[c].key \in Currency /\ Accepted(c)
  /\ call' = [call EXCEPT ![c].pc = "prepared"]
  /\ UNCHANGED <<clock, bearer>>

ConfirmRefused(c) ==
  /\ call[c].pc = "prepared" /\ ~ Accepted(c)
  /\ Refused(c)
  /\ UNCHANGED <<clock, bearer>>

Tick == clock < Horizon /\ clock' = clock + 1 /\ UNCHANGED <<bearer, call>>

AccessNext ==
  \/ \E c \in Asker :
       \/ \E k \in Key : Lookup(c, k)
       \/ \E b \in Bearer : Fetch(c, b)
       \/ Save(c) \/ PaymentTokenFails(c) \/ ReviewTokenFails(c)
       \/ UseRefused(c) \/ PreparePayout(c) \/ ConfirmRefused(c)
       \/ Hangup(c)
  \/ Tick

AccessSpec == AccessInit /\ [][AccessNext]_accessVars

-----------------------------------------------------------------------------
(***************************************************************************)
(* A call that had a token is refused only for time that passed: between   *)
(* the lookup and the request that was refused, or between the issue of    *)
(* the token and its save, by which the row outlives the token.            *)
(***************************************************************************)
Lag(b) == bearer[b].saved - bearer[b].issued

RefusedForCause ==
  \A c \in Asker :
    call[c].pc = "refused" /\ call[c].bearer # NoBearer =>
      (call[c].ended - call[c].since) + Lag(call[c].bearer) > 0

(***************************************************************************)
(* "findValid...": a second token is requested for a key only when the     *)
(* first has expired, or by calls that overlap: each missed before the     *)
(* other had saved.                                                        *)
(***************************************************************************)
FetchedForCause ==
  \A k \in Key : \A b, d \in TokenRows(k) :
    b # d => \/ ExpireAt(b) <= bearer[d].asked
             \/ ExpireAt(d) <= bearer[b].asked
             \/ /\ bearer[b].asked <= bearer[d].saved
                /\ bearer[d].asked <= bearer[b].saved

TokensAreFresh == AccessTypeOK /\ RefusedForCause /\ FetchedForCause
=============================================================================
