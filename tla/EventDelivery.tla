---------------------------- MODULE EventDelivery ----------------------------
(***************************************************************************)
(* What the transactional outbox promises a service that writes an event   *)
(* in the transaction of the change it announces: if that transaction      *)
(* commits the event is handled, possibly more than once; if it does not,  *)
(* the event is never seen.                                                *)
(***************************************************************************)
CONSTANT Event

VARIABLES
  committed,  \* events whose transaction committed
  handled     \* events the consumer has handled at least once

EDTypeOK == committed \subseteq Event /\ handled \subseteq Event

Init == committed = {} /\ handled = {}

Commit(e) ==
  /\ committed' = committed \cup {e}
  /\ UNCHANGED handled

Handle(e) ==
  /\ e \in committed
  /\ handled' = handled \cup {e}
  /\ UNCHANGED committed

Next == \E e \in Event : Commit(e) \/ Handle(e)

EDvars == <<committed, handled>>

\* What is handled was committed, and then that it is handled in the end.
Safety == Init /\ [][Next]_EDvars

Spec == Safety /\ \A e \in Event : WF_EDvars(Handle(e))
=============================================================================
