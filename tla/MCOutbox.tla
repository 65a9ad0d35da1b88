------------------------------ MODULE MCOutbox ------------------------------
(* Two relays.  One is Outbox with all that spoils deliveries: a row no     *)
(* broker takes, handlers that throw, a group that joins late.  The other   *)
(* meets none of it, polls less than its table holds, and delivers.  They   *)
(* share no variable, so a behaviour exercises one of them while the other  *)
(* stays in its initial state.                                              *)
EXTENDS Outbox, TLC

CONSTANTS e1, e2, t1, t2, SmallBatch

TwoRows   == {e1, e2}
TwoTicks  == {t1, t2}
OnePoison == {e2}

VARIABLES calmOutbox, calmTick, calmLog, calmJoined, calmStart, calmPosition,
          calmCommitted, calmHandled, calmDropped, calmCrashes

calmVars == <<calmOutbox, calmTick, calmLog, calmJoined, calmStart,
              calmPosition, calmCommitted, calmHandled, calmDropped,
              calmCrashes>>

Calm == INSTANCE Outbox
          WITH Poison <- {}, BatchSize <- SmallBatch, Hazard <- {"resend"},
               outbox <- calmOutbox, tick <- calmTick, log <- calmLog,
               joined <- calmJoined, start <- calmStart,
               position <- calmPosition, committed <- calmCommitted,
               handled <- calmHandled, dropped <- calmDropped,
               crashes <- calmCrashes

relayVars == <<vars, calmVars>>

RelayInit == Init /\ Calm!Init

RelayNext ==
  \/ Next /\ Calm!Init /\ UNCHANGED calmVars
  \/ Calm!Next /\ Init /\ UNCHANGED vars

RelaySpec == RelayInit /\ [][RelayNext]_relayVars /\ Calm!Fairness

(***************************************************************************)
(* Where all that can fail comes back (a dead process, a lost answer), the *)
(* relay implements EventDelivery: committed events are handled in the     *)
(* end, those of a transaction that rolled back never, whatever ticks      *)
(* overlap and however many rows wait.                                     *)
(***************************************************************************)
RelayDelivers == Calm!DeliversEvents
=============================================================================
