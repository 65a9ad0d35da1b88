----------------------------- MODULE CardControl -----------------------------
(***************************************************************************)
(* Blocking and unlocking a card: blockCard and unlockCard commit an event *)
(* and answer; the consumer asks Bridgecard to freeze or to unfreeze.  The *)
(* two kinds of event are on two topics, each delivered at least once and  *)
(* with nothing to order one after the other, and a handler that fails is  *)
(* logged and its message consumed.  What the user sees of it is the list  *)
(* of the provider's cards, read from the provider card by card.           *)
(***************************************************************************)
EXTENDS Integers

CONSTANTS
  Plastic,    \* the cards of the users, one row each
  Linked,     \* those whose row has a bridgecardId: no code stores one
  MaxFlight   \* bound on the events of one kind that a card has in flight

ASSUME CardControlAssumption == Linked \subseteq Plastic /\ MaxFlight \in Nat

VARIABLES
  flight,   \* events of each card and kind that are not consumed
  frozen,   \* whether the provider has frozen the card
  asked,    \* the kinds of event that were committed for the card
  wanted,   \* the kind of the last request that was answered isSuccess
  unsure,   \* cards whose last request was answered while an opposite event
            \* was in flight, or whose events have failed or come again since
  minted,   \* the cards that the provider has
  list      \* the last list of cards: being read, shown or failed

switches    == <<flight, frozen, asked, wanted, unsure>>
controlVars == <<switches, minted, list>>

Topic == {"freeze", "unfreeze"}

Opposite(t) == IF t = "freeze" THEN "unfreeze" ELSE "freeze"

CardControlTypeOK ==
  /\ flight \in [Plastic -> [Topic -> 0 .. MaxFlight]]
  /\ frozen \in [Plastic -> BOOLEAN]
  /\ asked \in [Plastic -> SUBSET Topic]
  /\ wanted \in [Plastic -> Topic \cup {"none"}]
  /\ unsure \subseteq Plastic
  /\ minted \in SUBSET Plastic
  /\ list \in [pc : {"none", "reading", "shown"}, cards : SUBSET Plastic,
              blocked : SUBSET Plastic, moving : SUBSET Plastic]

NoList == [pc |-> "none", cards |-> {}, blocked |-> {}, moving |-> {}]

\* A new card is active.
CardControlInit ==
  /\ flight = [c \in Plastic |-> [t \in Topic |-> 0]]
  /\ frozen = [c \in Plastic |-> FALSE]
  /\ asked = [c \in Plastic |-> {}]
  /\ wanted = [c \in Plastic |-> "none"]
  /\ unsure = {}
  /\ minted = Linked /\ list = NoList

-----------------------------------------------------------------------------
Doubt(c, doubted) == unsure' = IF doubted THEN unsure \cup {c} ELSE unsure \ {c}

\* The list that is shown may not know of what happens to the card from now on.
Moves(c) == list' = [list EXCEPT !.moving = @ \cup {c}]

Commit(c, t) ==
  flight[c][t] < MaxFlight /\ flight' = [flight EXCEPT ![c][t] = @ + 1]

\* blockCard and unlockCard: the card of the user is found by its uuid, the
\* event committed and the request answered.  Neither looks at isBlocked.
RequestFreeze(c, t) ==
  /\ Commit(c, t)
  /\ asked' = [asked EXCEPT ![c] = @ \cup {t}]
  /\ wanted' = [wanted EXCEPT ![c] = t]
  /\ Doubt(c, flight[c][Opposite(t)] > 0)
  /\ Moves(c)
  /\ UNCHANGED <<frozen, minted>>

BlockCard(c)  == RequestFreeze(c, "freeze")
UnlockCard(c) == RequestFreeze(c, "unfreeze")

\* The relay publishes an event twice, or a consumed one is delivered again.
EventAgain(c, t) ==
  /\ t \in asked[c] /\ Commit(c, t)
  /\ Doubt(c, c \in unsure \/ t # wanted[c])
  /\ UNCHANGED <<frozen, asked, wanted, minted, list>>

-----------------------------------------------------------------------------
Consume(c, t) == flight[c][t] > 0 /\ flight' = [flight EXCEPT ![c][t] = @ - 1]

\* The provider does what the last request wanted, and nothing may undo it.
Settled(c, t) == t = wanted[c] /\ flight[c][Opposite(t)] = 0

\* Mutant: the handler of the other topic calls the same method.
HandleFreezeBoth(c, t) ==
  /\ Consume(c, t) /\ c \in Linked
  /\ frozen' = [frozen EXCEPT ![c] = TRUE]
  /\ Doubt(c, c \in unsure /\ ~ Settled(c, t))
  /\ UNCHANGED <<asked, wanted, minted, list>>

\* handleBridgecardFreeze, handleBridgecardUnfreeze.
HandleFreeze(c, t) ==
  /\ Consume(c, t) /\ c \in Linked
  /\ frozen' = [frozen EXCEPT ![c] = (t = "freeze")]
  /\ Doubt(c, c \in unsure /\ ~ Settled(c, t))
  /\ UNCHANGED <<asked, wanted, minted, list>>

\* The provider fails, or does not know the card because the event has no id.
HandleFreezeFails(c, t) ==
  /\ Consume(c, t)
  /\ Doubt(c, TRUE)
  /\ UNCHANGED <<frozen, asked, wanted, minted, list>>

-----------------------------------------------------------------------------
(* getCardListByUserUuid.                                                  *)

\* createCard of the consumer: the card's row does not learn its id.
Mint(c) ==
  /\ c \notin minted
  /\ minted' = minted \cup {c}
  /\ UNCHANGED <<switches, list>>

InFlight(c) == \E t \in Topic : flight[c][t] > 0

\* getAllCardholderCards: the cards and which of them are active.
ReadList ==
  /\ list.pc # "reading"
  /\ list' = [pc |-> "reading", cards |-> minted,
              blocked |-> {c \in minted : frozen[c]},
              moving |-> {c \in minted : c \in unsure \/ InFlight(c)}]
  /\ UNCHANGED <<switches, minted>>

\* The details of every card: its row is found by the provider's id.
ShowList ==
  /\ list.pc = "reading" /\ list.cards \subseteq Linked
  /\ list' = [list EXCEPT !.pc = "shown"]
  /\ UNCHANGED <<switches, minted>>

\* One card without a row, without a transaction, or of which the provider does
\* not answer, fails the list.
ListFails ==
  /\ list.pc = "reading"
  /\ list' = NoList
  /\ UNCHANGED <<switches, minted>>

-----------------------------------------------------------------------------
CardControlNext ==
  \/ ReadList \/ ShowList \/ ListFails
  \/ \E c \in Plastic :
       \/ Mint(c) \/ BlockCard(c) \/ UnlockCard(c)
       \/ \E t \in Topic :
            EventAgain(c, t) \/ HandleFreeze(c, t) \/ HandleFreezeFails(c, t)

CardControlSpec == CardControlInit /\ [][CardControlNext]_controlVars

-----------------------------------------------------------------------------
(***************************************************************************)
(* A card ends as its last request left it: isSuccess is answered before   *)
(* the provider has heard of the request, and what it promises holds once  *)
(* the events are consumed, unless an opposite one was in flight with the  *)
(* request, or one has failed or come again since.  A card without a       *)
(* bridgecardId never gets frozen, though its requests succeed.  A list is *)
(* shown only if every card in it is linked, and shows as the last request *)
(* left it a card of which nothing was in flight or in doubt when it was   *)
(* read and nothing has been requested since.                              *)
(***************************************************************************)
Landed(c) ==
  (\A t \in Topic : flight[c][t] = 0) /\ wanted[c] # "none"
    => frozen[c] = (wanted[c] = "freeze")

NeverLinked(c) == ~ frozen[c]

ListIsLast ==
  /\ list.pc = "shown" => list.cards \subseteq Linked
  /\ \A c \in list.cards \ list.moving :
       wanted[c] # "none" => (c \in list.blocked <=> wanted[c] = "freeze")

BlockIsLast ==
  /\ CardControlTypeOK
  /\ ListIsLast
  /\ \A c \in Linked \ unsure : Landed(c)
  /\ \A c \in Plastic \ Linked : NeverLinked(c)

\* Why: while events are in flight, those that are not doubted all ask for
\* what the last request wants.
OneMindInFlight ==
  \A c \in Plastic \ unsure :
    IF wanted[c] = "none"
    THEN \A t \in Topic : t \notin asked[c] /\ flight[c][t] = 0
    ELSE /\ wanted[c] \in asked[c]
         /\ flight[c][Opposite(wanted[c])] = 0
=============================================================================
