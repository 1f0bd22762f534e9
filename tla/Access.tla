------------------------------- MODULE Access -------------------------------
(***************************************************************************)
(* Accounts with everything around them: the reset codes that end in an    *)
(* invite, the tickets that name a user, and the workers that deliver the  *)
(* links.  Each part's steps leave the others' variables alone, except     *)
(* that VerifyInvite writes an invite and TextTheCode queues a message.    *)
(***************************************************************************)
EXTENDS ResetCodes, Tickets, Deliveries

accessVars == <<vars, resetVars, ticketVars, task>>

AccessInit == Init /\ ResetInit /\ TicketInit /\ DeliveryInit

AccessNext ==
  \/ AccountStep /\ UNCHANGED <<resetVars, ticketVars, task>>
  \/ ResetStep /\ UNCHANGED <<ticketVars, task>>
  \/ TicketStep /\ UNCHANGED <<resetVars, task>>
  \/ DeliveryStep /\ UNCHANGED <<resetVars, ticketVars>>

AccessSpec == AccessInit /\ [][AccessNext]_accessVars

\* Time passes, a request on the accounts is served to its end, and the workers work.  No
\* request is ever forced, and nothing but time is assumed to make room in a counter.
AccessFairSpec ==
  /\ AccessSpec
  /\ WF_accessVars(Tick /\ UNCHANGED <<ticketVars, task>>)
  /\ \A h \in Handler : WF_accessVars(Serve(h) /\ UNCHANGED <<resetVars, ticketVars, task>>)
  /\ WF_accessVars((\E m \in texts : Work(m)) /\ UNCHANGED <<resetVars, ticketVars>>)

-----------------------------------------------------------------------------
AccessTypeOK == TypeOK /\ ResetTypeOK /\ TicketTypeOK /\ DeliveryTypeOK

\* The provider takes a message with a link to account u.
Told(u) == \E m \in texts : task[m].taken > 0 /\ m.what \in Invite /\ invites[m.what].user = u

\* Something went wrong on the way of a link to u: the request between its commit and the
\* queue, the sixth try of the task, or its worker.
Lost(u) == \E i \in Invite :
  /\ invites[i] # None /\ invites[i].user = u
  /\ \/ <<"text", i>> \in excused
     \/ \E m \in texts : m.what = i /\ task[m].state \in {"given up", "worker died"}

\* views.py:216: "a newly created parent gets ... a texted ParentInvite link".
\* Enrollment, queue and workers together see to that, unless one of them is lost for
\* good; nothing enrolls such a parent anew, only resend_invite helps.  An account that
\* the admin's form made a parent's was not created as one.
NewParentsAreTold ==
  \A u \in User :
    ("deliver" \in mix.calls /\ IsParent(u) /\ users[u].password = Unusable
       /\ <<"role", u>> \notin excused)
      ~> (Told(u) \/ Lost(u) \/ users[u] = Gone)
=============================================================================
