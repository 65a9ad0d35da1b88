------------------------------- MODULE MCViews -------------------------------
(* MCLedger together with what users see of it: Notifications and Dashboard *)
(* read the ledger and change nothing in it.  They do not meet, so a        *)
(* dashboard is read in behaviours where no event has been handled yet.     *)
EXTENDS MCLedger, Notifications, Dashboard

allVars == <<vars, noticeVars, viewVars>>

ViewsInit == Init /\ NotificationsInit /\ DashboardInit

NoneHandled == \A e \in Event : handled[e] = 0

ViewsNext ==
  \/ Next /\ LedgerMoves /\ UNCHANGED noticeVars
  \/ NotificationsNext /\ UNCHANGED vars /\ view' = NoView /\ moved' = FALSE
  \/ NoneHandled /\ DashboardNext /\ UNCHANGED <<vars, noticeVars>>

\* The consumer takes the first delivery of each event.
FirstDelivery(e) ==
  /\ handled[e] = 0 /\ NotificationsStep(e)
  /\ UNCHANGED vars /\ view' = NoView /\ moved' = FALSE

ViewsFairness ==
  \A r \in Req :
    WF_allVars(\E e \in outbox : e.ref = r /\ FirstDelivery(e))

ViewsSpec ==
  ViewsInit /\ [][ViewsNext]_allVars /\ Fairness /\ ViewsFairness
=============================================================================
